---- MODULE Spec2Model ----
(***************************************************************************)
(* The IMAP synchronisation manager of reachinbox-onebox (ImapSyncManager, *)
(* src/unnamed/part_003) as a state machine.                               *)
(*                                                                         *)
(* One ImapAccount object is created per startImap call and lives on in    *)
(* the closures of its connections' handlers and of its timers, whether or *)
(* not the registry (the accounts map) still points to it: objs holds      *)
(* every object ever created, accounts the registry.  One connection is    *)
(* created per connectAccount call; the handlers installed on it close     *)
(* over the account object, not over the connection.                       *)
(*                                                                         *)
(* The mail library is the environment.  A connection is connecting, open, *)
(* errored (it has emitted 'error' and may still emit 'end') or closed; it *)
(* answers the commands issued on it one at a time, in the order they were *)
(* issued (queue), has INBOX selected or not (box) and keeps a listen-mode  *)
(* flag (idling) that idle() sets and idleStop() clears.  A command issued *)
(* on a connection that is not open is lost.  Timeouts may fire at any     *)
(* moment once scheduled.                                                  *)
(*                                                                         *)
(* The fields stopped, stoppedBusy, failed (of an account), overlapped (of  *)
(* a command), cycleErrors (of a connection: the search and fetch errors   *)
(* it has reported), afterStop (of a sink record) and the variable         *)
(* stopAllResolved are history state: the code does not hold them, the     *)
(* properties below read them.                                             *)
(***************************************************************************)
EXTENDS Integers, Sequences, FiniteSets, TLC

\* ---------------------------------------------------------------- bounds
AccountIds == {"a1", "a2"}
MaxObjs == 2        \* startImap calls in a run
MaxConns == 2       \* connections created in a run
MaxCycles == 3      \* fetch cycles started in a run
MaxResults == 2     \* identifiers a search returns
MaxTasks == 2       \* processEmail calls in flight
MaxAddrs == 2       \* address objects in a header given as a list
MaxMsgs == 3        \* messages delivered to the mailbox in a run

\* ------------------------------------------------------ program constants
MAX_RECONNECT_ATTEMPTS == 5
INITIAL_RECONNECT_DELAY == 1000
FETCH_LAST == 10

VARIABLES
  accounts,         \* the registry: account id -> object (0: no entry)
  objs,             \* the ImapAccount objects, in creation order
  conns,            \* the connections, in creation order
  timers,           \* pending reconnect timeouts (handleReconnect's setTimeout)
  tasks,            \* processEmail calls in flight
  sink,             \* records the document sink has received
  classified,       \* records the classifier has been called with
  cyclesStarted,    \* fetch cycles started so far (bounds the run)
  stopAllResolved,  \* stopAll has resolved and no startImap followed
  processErrors,    \* messages processEmail gave up on (the log of line 278)
  mailbox,          \* INBOX on the server: its messages, by sequence number
  indexed,          \* documents built for the messages of the mailbox
  parsed,           \* a ParsedMail handed to the normalisation
  emailDoc,         \* the EmailDocument built from it (<<>>: not yet)
  notification,     \* the notifyInterested call: its channels and its result
  classification,   \* the last parseClassificationResult call: response, result
  documents,        \* the document sink of search.ts: mock array and indices
  classifyCall,     \* the classifyAndUpdateEmail call (<<>>: none made)
  fetchRequest,     \* the search answer of a fetch cycle and the fetch issued
  droppedSignals    \* 'mail' signals fetchNewEmails returned from at its guard

\* the services behind the classifier: notification and response parsing
sideVars == <<documents, classifyCall, fetchRequest, droppedSignals>>

svcVars == <<notification, classification, sideVars>>

\* the message side: the mailbox and the normalisation of one message
msgVars == <<mailbox, indexed, parsed, emailDoc, svcVars>>

vars == <<accounts, objs, conns, timers, tasks, sink, classified,
          cyclesStarted, stopAllResolved, processErrors, msgVars>>

None == 0

Objs == 1..Len(objs)
Conns == 1..Len(conns)

\* ------------------------------------------------------------- helpers

Pow2(n) == 2 ^ n

Min(a, b) == IF a < b THEN a ELSE b

RemoveAt(s, i) == [j \in 1..(Len(s) - 1) |-> IF j < i THEN s[j] ELSE s[j + 1]]

\* results.slice(-10): how many of n identifiers are fetched
SliceLast(n) == Min(FETCH_LAST, n)

Live(c) == c \in Conns /\ conns[c].state \in {"connecting", "open"}

NewConn(o) ==
  [obj |-> o, state |-> "connecting", box |-> FALSE, idling |-> FALSE,
   queue |-> <<>>, cycleErrors |-> 0]

ClosedConn(o) ==
  [obj |-> o, state |-> "closed", box |-> FALSE, idling |-> FALSE,
   queue |-> <<>>, cycleErrors |-> 0]

\* a command in flight: n messages still to come of total (a fetch)
Cmd(op, o, n, total, ov) ==
  [op |-> op, obj |-> o, n |-> n, total |-> total, overlapped |-> ov]

\* the places <<connection, position>> of the commands in flight on cs
Places(cs) ==
  UNION {{<<c, i>> : i \in 1..Len(cs[c].queue)} : c \in 1..Len(cs)}

\* the commands of fetch cycles of object o that are in flight
CycleCmds(o) ==
  {p \in Places(conns) :
     /\ conns[p[1]].queue[p[2]].obj = o
     /\ conns[p[1]].queue[p[2]].op \in {"search", "fetch"}}

CyclesInFlight(o) == Cardinality(CycleCmds(o))

FollowUpsInFlight(o) ==
  Cardinality({p \in CycleCmds(o) : conns[p[1]].queue[p[2]].overlapped})

\* a watchdog NOOP is outstanding on connection c
ProbeOutstanding(c) ==
  \E i \in 1..Len(conns[c].queue) : conns[c].queue[i].op = "noop"

\* ------------------------------------------------ the code's procedures

\* startImap, lines 42-57: the new account object
NewAccount(id) ==
  [id |-> id, isConnected |-> FALSE, reconnectAttempts |-> 0,
   maxReconnectAttempts |-> MAX_RECONNECT_ATTEMPTS,
   reconnectDelay |-> INITIAL_RECONNECT_DELAY,
   connection |-> None, watchdogTimer |-> FALSE, idleTimer |-> FALSE,
   leakedWatchdogs |-> 0, resumePending |-> 0,
   stopped |-> FALSE, stoppedBusy |-> FALSE, failed |-> FALSE]

\* cleanupTimers: clears what the two handles hold, and the handles
CleanupTimers(ob) == [ob EXCEPT !.watchdogTimer = FALSE, !.idleTimer = FALSE]

\* startWatchdog: a new interval, its handle written over the old one
StartWatchdog(ob) ==
  [ob EXCEPT !.leakedWatchdogs = @ + (IF ob.watchdogTimer THEN 1 ELSE 0),
             !.watchdogTimer = TRUE]

\* handleReconnect, line 294
Exhausted(ob) == ob.reconnectAttempts >= ob.maxReconnectAttempts

\* a variant of BackoffDelay: the exponent is the attempt, not the attempt - 1
BackoffDelayOffByOne(ob) == ob.reconnectDelay * Pow2(ob.reconnectAttempts)

\* handleReconnect, line 300, read after the increment of line 299
BackoffDelay(ob) == ob.reconnectDelay * Pow2(ob.reconnectAttempts - 1)

\* a variant of ReconnectObj without the test of line 294
ReconnectObjUnbounded(ob) ==
  CleanupTimers([ob EXCEPT !.reconnectAttempts = @ + 1])

\* handleReconnect: the account object afterwards
ReconnectObj(ob) ==
  IF Exhausted(ob)
    THEN [ob EXCEPT !.failed = TRUE]
    ELSE CleanupTimers([ob EXCEPT !.reconnectAttempts = @ + 1])

\* a variant of ReconnectTimers: no retry is ever scheduled
ReconnectTimersNone(o, ob) == <<>>

\* handleReconnect: the timeout it schedules, if any
ReconnectTimers(o, ob) ==
  IF Exhausted(ob)
    THEN <<>>
    ELSE LET nb == [ob EXCEPT !.reconnectAttempts = @ + 1]
         IN  <<[obj |-> o, attempt |-> nb.reconnectAttempts,
                delay |-> BackoffDelay(nb)]>>

\* restartIdle: the guard, and the timeout it schedules
RestartIdle(ob) ==
  IF ob.isConnected /\ ob.connection # None
    THEN [ob EXCEPT !.resumePending = @ + 1]
    ELSE ob

\* a variant of OnReady: the attempt counter is not reset
OnReadyKeepsAttempts(ob) ==
  StartWatchdog([ob EXCEPT !.isConnected = TRUE,
                           !.reconnectDelay = INITIAL_RECONNECT_DELAY])

\* the 'ready' handler, lines 95-100
OnReady(ob) ==
  StartWatchdog([ob EXCEPT !.isConnected = TRUE,
                           !.reconnectAttempts = 0,
                           !.reconnectDelay = INITIAL_RECONNECT_DELAY])

\* getAccountStatus: null, or the one status object of the session
\* registered for id (an empty or a one-element sequence)
NoStatus == <<>>

getAccountStatus(reg, os, id) ==
  IF reg[id] = None
    THEN NoStatus
    ELSE <<[isConnected |-> os[reg[id]].isConnected,
            reconnectAttempts |-> os[reg[id]].reconnectAttempts]>>

\* a command issued on connection c: queued if the connection can answer
Enqueue(cs, c, cmd) ==
  IF c \in 1..Len(cs) /\ cs[c].state = "open"
    THEN [cs EXCEPT ![c].queue = Append(@, cmd)]
    ELSE cs

\* idle() / idleStop() on connection c
SetIdle(cs, c, b) ==
  IF c \in 1..Len(cs) /\ cs[c].state = "open"
    THEN [cs EXCEPT ![c].idling = b]
    ELSE cs

\* ---------------------------------------------------------------- Init

\* the document sink when the module is loaded: the mock array holds the two
\* mock documents of 'default-account' (search.ts, lines 7-36), Elasticsearch
\* holds no index and no document; ES_URL is unset, so that the sink is
\* Elasticsearch on localhost (line 45)
NoDocuments ==
  LET MockDoc(id) == [id |-> id, accountId |-> "default-account",
                      subject |-> "welcome", indexedAt |-> 0]
  IN  [mode |-> "es", mockEmails |-> <<MockDoc("mock-1"), MockDoc("mock-2")>>,
       indices |-> {}, stored |-> {}, submitted |-> <<>>, threw |-> FALSE]

\* the notification channels of notifyInterested
Channels == {"Slack", "Webhook"}

\* a channel before any call: not attempted, nothing posted
NoChannel ==
  [state |-> "none", attempt |-> 0, posts |-> 0, delay |-> 0, error |-> <<>>]

\* the NotificationResult a call starts with (part_004, lines 43-49)
NewResult ==
  [success |-> FALSE, slackSuccess |-> FALSE, webhookSuccess |-> FALSE,
   errors |-> <<>>]

\* no notifyInterested call has been made
NoNotification ==
  [pc |-> "idle", url |-> [ch \in Channels |-> <<>>],
   chan |-> [ch \in Channels |-> NoChannel], result |-> NewResult]

Init ==
  /\ accounts = [id \in AccountIds |-> None]
  /\ objs = <<>>
  /\ conns = <<>>
  /\ timers = <<>>
  /\ tasks = <<>>
  /\ sink = {}
  /\ classified = {}
  /\ cyclesStarted = 0
  /\ stopAllResolved = FALSE
  /\ processErrors = {}
  /\ mailbox = <<>>
  /\ indexed = {}
  /\ parsed = <<>>
  /\ emailDoc = <<>>
  /\ notification = NoNotification
  /\ classification = <<>>
  /\ documents = NoDocuments
  /\ classifyCall = <<>>
  /\ fetchRequest = <<>>
  /\ droppedSignals = 0

\* ------------------------------------------------------------ the manager

\* connectAccount(o) on the objects os and the pending timeouts ts: a new
\* connection with its handlers, or the catch branch (the constructor
\* throws) and handleReconnect
ConnectOk(o, os, ts) ==
  /\ Len(conns) < MaxConns
  /\ conns' = Append(conns, NewConn(o))
  /\ objs' = [os EXCEPT ![o].connection = Len(conns) + 1]
  /\ timers' = ts

ConnectThrows(o, os, ts) ==
  /\ conns' = conns
  /\ objs' = [os EXCEPT ![o] = ReconnectObj(@)]
  /\ timers' = ts \o ReconnectTimers(o, os[o])

connectAccount(o, os, ts) == ConnectOk(o, os, ts) \/ ConnectThrows(o, os, ts)

startImap(id) ==
  /\ Len(objs) < MaxObjs
  /\ accounts' = [accounts EXCEPT ![id] = Len(objs) + 1]
  /\ connectAccount(Len(objs) + 1, Append(objs, NewAccount(id)), timers)
  /\ stopAllResolved' = FALSE
  /\ UNCHANGED <<tasks, sink, classified, cyclesStarted>>
  /\ UNCHANGED <<processErrors, msgVars>>

\* a fetch of object o is in flight on one of the connections cs
FetchInFlight(cs, o) ==
  \E c \in 1..Len(cs) : \E i \in 1..Len(cs[c].queue) :
    cs[c].queue[i].obj = o /\ cs[c].queue[i].op = "fetch"

\* a variant of StopOne: the registry entry is not deleted
StopOneKeepsEntry(st, id) ==
  LET o == st.accounts[id] IN
  IF o = None
    THEN st
    ELSE LET ob == st.objs[o] IN
         [accounts |-> st.accounts,
          objs |-> [st.objs EXCEPT ![o] = [CleanupTimers(ob) EXCEPT !.stopped = TRUE]],
          conns |-> IF ob.connection # None /\ ob.isConnected
                      THEN Enqueue(st.conns, ob.connection,
                                   Cmd("logout", o, 0, 0, FALSE))
                      ELSE st.conns]

\* stopImap(id), lines 323-336, as a function of the manager's state
\* st = [accounts, objs, conns]
StopOne(st, id) ==
  LET o == st.accounts[id] IN
  IF o = None
    THEN st
    ELSE LET ob == st.objs[o] IN
         [accounts |-> [st.accounts EXCEPT ![id] = None],
          objs |-> [st.objs EXCEPT ![o] =
                      [CleanupTimers(ob) EXCEPT !.stopped = TRUE,
                                                !.stoppedBusy = FetchInFlight(st.conns, o)]],
          conns |-> IF ob.connection # None /\ ob.isConnected
                      THEN Enqueue(st.conns, ob.connection,
                                   Cmd("logout", o, 0, 0, FALSE))
                      ELSE st.conns]

RECURSIVE StopMany(_, _)
StopMany(st, ids) ==
  IF ids = {}
    THEN st
    ELSE LET id == CHOOSE x \in ids : TRUE
         IN  StopMany(StopOne(st, id), ids \ {id})

MgrState == [accounts |-> accounts, objs |-> objs, conns |-> conns]

stopImap(id) ==
  /\ LET st == StopOne(MgrState, id) IN
       /\ accounts' = st.accounts
       /\ objs' = st.objs
       /\ conns' = st.conns
  /\ UNCHANGED <<timers, tasks, sink, classified, cyclesStarted, stopAllResolved>>
  /\ UNCHANGED <<processErrors, msgVars>>

\* stopAll: stopImap on every key of the registry, then the promise resolves
stopAll ==
  /\ LET st == StopMany(MgrState, {id \in AccountIds : accounts[id] # None}) IN
       /\ accounts' = st.accounts
       /\ objs' = st.objs
       /\ conns' = st.conns
  /\ stopAllResolved' = TRUE
  /\ UNCHANGED <<timers, tasks, sink, classified, cyclesStarted>>
  /\ UNCHANGED <<processErrors, msgVars>>

\* the timeout of handleReconnect fires: connectAccount(account)
ReconnectTimerFires(i) ==
  /\ i \in 1..Len(timers)
  /\ connectAccount(timers[i].obj, objs, RemoveAt(timers, i))
  /\ UNCHANGED <<accounts, tasks, sink, classified, cyclesStarted, stopAllResolved>>
  /\ UNCHANGED <<processErrors, msgVars>>

\* ------------------------------------------------- connection events

\* 'ready': the handler of lines 94-102, startIdleMonitoring included
ConnReady(c) ==
  /\ c \in Conns /\ conns[c].state = "connecting"
  /\ LET o == conns[c].obj
         ob == OnReady(objs[o])
         cs == [conns EXCEPT ![c].state = "open"]
     IN  /\ objs' = [objs EXCEPT ![o] = ob]
         /\ conns' = Enqueue(cs, ob.connection, Cmd("openBox", o, 0, 0, FALSE))
  /\ UNCHANGED <<accounts, timers, tasks, sink, classified, cyclesStarted,
                 stopAllResolved>>
  /\ UNCHANGED <<processErrors, msgVars>>

\* a variant of ConnError: the handler marks every account disconnected
ConnErrorHitsAll(c) ==
  /\ Live(c)
  /\ LET o == conns[c].obj
         ob == [objs[o] EXCEPT !.isConnected = FALSE]
     IN  /\ objs' = [x \in DOMAIN objs |->
                       IF x = o THEN ReconnectObj(ob)
                                ELSE [objs[x] EXCEPT !.isConnected = FALSE]]
         /\ timers' = timers \o ReconnectTimers(o, ob)
         /\ conns' = [conns EXCEPT ![c] = [ClosedConn(o) EXCEPT !.state = "errored"]]
  /\ UNCHANGED <<accounts, tasks, sink, classified, cyclesStarted, stopAllResolved>>
  /\ UNCHANGED <<processErrors, msgVars>>

\* a variant of ConnError: the handler also drops the account from the
\* registry
ConnErrorDeregisters(c) ==
  /\ Live(c)
  /\ LET o == conns[c].obj
         ob == [objs[o] EXCEPT !.isConnected = FALSE]
     IN  /\ objs' = [objs EXCEPT ![o] = ReconnectObj(ob)]
         /\ timers' = timers \o ReconnectTimers(o, ob)
         /\ conns' = [conns EXCEPT ![c] = [ClosedConn(o) EXCEPT !.state = "errored"]]
         /\ accounts' = [accounts EXCEPT ![objs[o].id] = None]
  /\ UNCHANGED <<tasks, sink, classified, cyclesStarted, stopAllResolved>>
  /\ UNCHANGED <<processErrors, msgVars>>

\* 'error': the handler of lines 104-108
ConnError(c) ==
  /\ Live(c)
  /\ LET o == conns[c].obj
         ob == [objs[o] EXCEPT !.isConnected = FALSE]
     IN  /\ objs' = [objs EXCEPT ![o] = ReconnectObj(ob)]
         /\ timers' = timers \o ReconnectTimers(o, ob)
         /\ conns' = [conns EXCEPT ![c] = [ClosedConn(o) EXCEPT !.state = "errored"]]
  /\ UNCHANGED <<accounts, tasks, sink, classified, cyclesStarted, stopAllResolved>>
  /\ UNCHANGED <<processErrors, msgVars>>

\* the 'end' handler of lines 110-114
OnEnd(ob) == CleanupTimers([ob EXCEPT !.isConnected = FALSE])

\* 'end': the far end closes the connection
ConnEnd(c) ==
  /\ c \in Conns /\ conns[c].state \in {"connecting", "open", "errored"}
  /\ LET o == conns[c].obj IN
       /\ objs' = [objs EXCEPT ![o] = OnEnd(@)]
       /\ conns' = [conns EXCEPT ![c] = ClosedConn(o)]
  /\ UNCHANGED <<accounts, timers, tasks, sink, classified, cyclesStarted,
                 stopAllResolved>>
  /\ UNCHANGED <<processErrors, msgVars>>

\* 'mail': fetchNewEmails(account), up to the search it issues
\* a variant of Mail without the guard of line 161: the search is sent on the
\* connection that signalled
MailUnguarded(c) ==
  /\ c \in Conns /\ conns[c].state = "open" /\ conns[c].box
  /\ cyclesStarted < MaxCycles
  /\ conns' = Enqueue(SetIdle(conns, c, FALSE), c,
                      Cmd("search", conns[c].obj, 0, 0, FALSE))
  /\ cyclesStarted' = cyclesStarted + 1
  /\ UNCHANGED <<accounts, objs, timers, tasks, sink, classified,
                 stopAllResolved>>
  /\ UNCHANGED <<processErrors, msgVars>>

\* 'mail' on a connection whose account is not connected: fetchNewEmails
\* returns at its guard (lines 160-161); nothing is sent, scheduled or kept
MailDropped(c) ==
  /\ c \in Conns /\ conns[c].state = "open" /\ conns[c].box
  /\ droppedSignals < MaxCycles
  /\ LET ob == objs[conns[c].obj]
     IN  ~(ob.isConnected /\ ob.connection # None)
  /\ droppedSignals' = droppedSignals + 1
  /\ UNCHANGED <<accounts, objs, conns, timers, tasks, sink, classified,
                 cyclesStarted, stopAllResolved, processErrors, mailbox,
                 indexed, parsed, emailDoc, notification, classification,
                 documents, classifyCall, fetchRequest>>

Mail(c) ==
  /\ c \in Conns /\ conns[c].state = "open" /\ conns[c].box
  /\ cyclesStarted < MaxCycles
  /\ LET o == conns[c].obj
         ob == objs[o]
         cur == ob.connection
     IN  /\ ob.isConnected /\ cur # None
         /\ IF cur \in Conns /\ conns[cur].state = "open"
              THEN /\ conns' = Enqueue(SetIdle(conns, cur, FALSE), cur,
                                       Cmd("search", o, 0, 0, CyclesInFlight(o) > 0))
                   /\ objs' = objs
              ELSE \* search throws: the catch branch of lines 214-217
                   /\ conns' = conns
                   /\ objs' = [objs EXCEPT ![o] = RestartIdle(ob)]
  /\ cyclesStarted' = cyclesStarted + 1
  /\ UNCHANGED <<accounts, timers, tasks, sink, classified, stopAllResolved>>
  /\ UNCHANGED <<processErrors, msgVars>>

\* 'expunge': logged
Expunge(c) ==
  /\ c \in Conns /\ conns[c].state = "open" /\ conns[c].box
  /\ UNCHANGED vars

\* the watchdog interval fires (any of the account's active intervals), lines
\* 127-139; the interval is 29 minutes, and the NOOP of the tick before has
\* been answered or its connection is gone
WatchdogTick(o) ==
  /\ o \in Objs
  /\ objs[o].watchdogTimer \/ objs[o].leakedWatchdogs > 0
  /\ objs[o].isConnected /\ objs[o].connection # None
  /\ Live(objs[o].connection) /\ conns[objs[o].connection].state = "open"
  /\ ~ProbeOutstanding(objs[o].connection)
  /\ conns' = Enqueue(conns, objs[o].connection, Cmd("noop", o, 0, 0, FALSE))
  /\ UNCHANGED <<accounts, objs, timers, tasks, sink, classified, cyclesStarted,
                 stopAllResolved>>
  /\ UNCHANGED <<processErrors, msgVars>>

\* --------------------------------------------- answers to the commands

Answering(c, op) ==
  /\ c \in Conns /\ conns[c].state = "open"
  /\ conns[c].queue # <<>>
  /\ conns[c].queue[1].op = op

Pop(cs, c) == [cs EXCEPT ![c].queue = Tail(@)]

\* the callback of openBox, lines 147-157
OpenBoxDone(c) ==
  /\ Answering(c, "openBox")
  /\ \E err \in BOOLEAN :
       conns' = IF err
                  THEN Pop(conns, c)
                  ELSE SetIdle([Pop(conns, c) EXCEPT ![c].box = TRUE],
                               objs[conns[c].queue[1].obj].connection, TRUE)
  /\ UNCHANGED <<accounts, objs, timers, tasks, sink, classified, cyclesStarted,
                 stopAllResolved>>
  /\ UNCHANGED <<processErrors, msgVars>>

\* a variant of NoopDone: a failed probe marks the session disconnected and
\* leaves it at that
NoopDoneMarksOnly(c) ==
  /\ Answering(c, "noop")
  /\ conns' = Pop(conns, c)
  /\ \E err \in BOOLEAN :
       IF err
         THEN objs' = [objs EXCEPT ![conns[c].queue[1].obj].isConnected = FALSE]
         ELSE objs' = objs
  /\ UNCHANGED <<accounts, timers, tasks, sink, classified, cyclesStarted,
                 stopAllResolved>>
  /\ UNCHANGED <<processErrors, msgVars>>

\* the callback of the watchdog's noop, lines 131-137
NoopDone(c) ==
  /\ Answering(c, "noop")
  /\ conns' = Pop(conns, c)
  /\ \E err \in BOOLEAN :
       LET o == conns[c].queue[1].obj
           ob == [objs[o] EXCEPT !.isConnected = FALSE]
       IN  IF err
             THEN /\ objs' = [objs EXCEPT ![o] = ReconnectObj(ob)]
                  /\ timers' = timers \o ReconnectTimers(o, ob)
             ELSE UNCHANGED <<objs, timers>>
  /\ UNCHANGED <<accounts, tasks, sink, classified, cyclesStarted, stopAllResolved>>
  /\ UNCHANGED <<processErrors, msgVars>>

\* the callback of search, lines 175-212: an error (SearchErr), or n identifiers
SearchErr == -1

SearchResults == {SearchErr} \cup (0..MaxResults)

SearchDone(c) ==
  /\ Answering(c, "search")
  /\ \E r \in SearchResults :
       LET h == conns[c].queue[1]
           o == h.obj
       IN  IF r = SearchErr \/ r = 0
             THEN /\ conns' = [Pop(conns, c) EXCEPT ![c].cycleErrors =
                                 @ + (IF r = SearchErr THEN 1 ELSE 0)]
                  /\ objs' = [objs EXCEPT ![o] = RestartIdle(@)]
             ELSE /\ conns' = Enqueue(Pop(conns, c), objs[o].connection,
                                      Cmd("fetch", o, SliceLast(r), SliceLast(r),
                                          h.overlapped))
                  /\ objs' = objs
  /\ UNCHANGED <<accounts, timers, tasks, sink, classified, cyclesStarted,
                 stopAllResolved>>
  /\ UNCHANGED <<processErrors, msgVars>>

\* fetch 'message' and the end of its body: processEmail is called
FetchMessage(c) ==
  /\ Answering(c, "fetch")
  /\ conns[c].queue[1].n > 0
  /\ Len(tasks) < MaxTasks
  /\ LET h == conns[c].queue[1] IN
       /\ tasks' = Append(tasks, [obj |-> h.obj, seqno |-> h.total - h.n + 1,
                                  stage |-> "parse"])
       /\ conns' = [conns EXCEPT ![c].queue[1].n = @ - 1]
  /\ UNCHANGED <<accounts, objs, timers, sink, classified, cyclesStarted,
                 stopAllResolved>>
  /\ UNCHANGED <<processErrors, msgVars>>

\* fetch 'end', lines 205-208
FetchEnd(c) ==
  /\ Answering(c, "fetch")
  /\ conns[c].queue[1].n = 0
  /\ conns' = Pop(conns, c)
  /\ objs' = [objs EXCEPT ![conns[c].queue[1].obj] = RestartIdle(@)]
  /\ UNCHANGED <<accounts, timers, tasks, sink, classified, cyclesStarted,
                 stopAllResolved>>
  /\ UNCHANGED <<processErrors, msgVars>>

\* a variant of FetchError: the failure is logged and nothing else happens
FetchErrorOnlyLogs(c) ==
  /\ Answering(c, "fetch")
  /\ conns' = [Pop(conns, c) EXCEPT ![c].cycleErrors = @ + 1]
  /\ UNCHANGED <<accounts, objs, timers, tasks, sink, classified, cyclesStarted,
                 stopAllResolved>>
  /\ UNCHANGED <<processErrors, msgVars>>

\* fetch 'error', lines 201-203 (logged).  The mail library reports the
\* failed command on the fetch emitter as 'error' and then completes the
\* request with 'end', so the handler of lines 205-208 runs after it.
FetchError(c) ==
  /\ Answering(c, "fetch")
  /\ conns' = [Pop(conns, c) EXCEPT ![c].cycleErrors = @ + 1]
  /\ objs' = [objs EXCEPT ![conns[c].queue[1].obj] = RestartIdle(@)]
  /\ UNCHANGED <<accounts, timers, tasks, sink, classified, cyclesStarted,
                 stopAllResolved>>
  /\ UNCHANGED <<processErrors, msgVars>>

\* connection.end() completes: the socket ends and 'end' is emitted
LogoutDone(c) ==
  /\ Answering(c, "logout")
  /\ LET o == conns[c].obj IN
       /\ objs' = [objs EXCEPT ![o] = OnEnd(@)]
       /\ conns' = [conns EXCEPT ![c] = ClosedConn(o)]
  /\ UNCHANGED <<accounts, timers, tasks, sink, classified, cyclesStarted,
                 stopAllResolved>>
  /\ UNCHANGED <<processErrors, msgVars>>

\* the timeout of restartIdle fires, lines 285-290
ResumeIdleFires(o) ==
  /\ o \in Objs
  /\ objs[o].resumePending > 0
  /\ objs' = [objs EXCEPT ![o].resumePending = @ - 1]
  /\ conns' = IF objs[o].isConnected /\ objs[o].connection # None
                THEN SetIdle(conns, objs[o].connection, TRUE)
                ELSE conns
  /\ UNCHANGED <<accounts, timers, tasks, sink, classified, cyclesStarted,
                 stopAllResolved>>
  /\ UNCHANGED <<processErrors, msgVars>>

\* ------------------------------------------------------- processEmail

\* the message a processEmail call works on
Key(t) == [obj |-> t.obj, seqno |-> t.seqno]

Record(t) ==
  [obj |-> t.obj, accountId |-> objs[t.obj].id, seqno |-> t.seqno,
   afterStop |-> objs[t.obj].stopped]

\* a variant of ParseDone: a message that fails to parse takes the calls in
\* flight for the other messages down with it
ParseDoneAbortsBatch(i) ==
  /\ i \in 1..Len(tasks)
  /\ tasks[i].stage = "parse"
  /\ \E ok \in BOOLEAN :
       IF ok
         THEN /\ tasks' = [tasks EXCEPT ![i].stage = "index"]
              /\ UNCHANGED processErrors
         ELSE /\ tasks' = <<>>
              /\ processErrors' = processErrors \cup {Key(tasks[i])}
  /\ UNCHANGED <<accounts, objs, conns, timers, sink, classified, cyclesStarted,
                 stopAllResolved>>
  /\ UNCHANGED msgVars

\* simpleParser resolves or rejects, line 222
ParseDone(i) ==
  /\ i \in 1..Len(tasks)
  /\ tasks[i].stage = "parse"
  /\ \E ok \in BOOLEAN :
       IF ok
         THEN /\ tasks' = [tasks EXCEPT ![i].stage = "index"]
              /\ UNCHANGED processErrors
         ELSE \* the catch of lines 277-279
              /\ tasks' = RemoveAt(tasks, i)
              /\ processErrors' = processErrors \cup {Key(tasks[i])}
  /\ UNCHANGED <<accounts, objs, conns, timers, sink, classified, cyclesStarted,
                 stopAllResolved>>
  /\ UNCHANGED msgVars

\* a variant of IndexDone: the classifier is called whether or not the sink
\* took the document
IndexDoneClassifiesAnyway(i) ==
  /\ i \in 1..Len(tasks)
  /\ tasks[i].stage = "index"
  /\ classified' = classified \cup {Record(tasks[i])}
  /\ tasks' = [tasks EXCEPT ![i].stage = "classify"]
  /\ \E ok \in BOOLEAN :
       IF ok
         THEN /\ sink' = sink \cup {Record(tasks[i])}
              /\ UNCHANGED processErrors
         ELSE /\ processErrors' = processErrors \cup {Key(tasks[i])}
              /\ UNCHANGED sink
  /\ UNCHANGED <<accounts, objs, conns, timers, cyclesStarted, stopAllResolved>>
  /\ UNCHANGED msgVars

\* indexEmail resolves or rejects, line 258; then the classifier is called
IndexDone(i) ==
  /\ i \in 1..Len(tasks)
  /\ tasks[i].stage = "index"
  /\ \E ok \in BOOLEAN :
       IF ok
         THEN /\ sink' = sink \cup {Record(tasks[i])}
              /\ classified' = classified \cup {Record(tasks[i])}
              /\ tasks' = [tasks EXCEPT ![i].stage = "classify"]
              /\ UNCHANGED processErrors
         ELSE \* indexEmail rethrows: the catch of lines 277-279
              /\ tasks' = RemoveAt(tasks, i)
              /\ processErrors' = processErrors \cup {Key(tasks[i])}
              /\ UNCHANGED <<sink, classified>>
  /\ UNCHANGED <<accounts, objs, conns, timers, cyclesStarted, stopAllResolved>>
  /\ UNCHANGED msgVars

\* classifyAndUpdateEmail resolves or rejects, lines 271-275
ClassifyDone(i) ==
  /\ i \in 1..Len(tasks)
  /\ tasks[i].stage = "classify"
  /\ tasks' = RemoveAt(tasks, i)
  /\ UNCHANGED <<accounts, objs, conns, timers, sink, classified, cyclesStarted,
                 stopAllResolved>>
  /\ UNCHANGED <<processErrors, msgVars>>

\* ------------------------------------------- processEmail: normalisation

\* an address object of the parser: its text and its address, "" for a
\* missing (falsy) one
AddrObjects ==
  {[text |-> "T <a@x>", address |-> "a@x"],
   [text |-> "", address |-> "b@x"],
   [text |-> "", address |-> ""]}

RECURSIVE SeqsUpTo(_, _)
SeqsUpTo(S, n) ==
  IF n = 0 THEN {<<>>}
  ELSE LET shorter == SeqsUpTo(S, n - 1)
       IN  shorter \cup {Append(s, x) : s \in {t \in shorter : Len(t) = n - 1}, x \in S}

\* a to/cc/bcc header as the parser gives it: absent, one address object,
\* or a list of address objects
Headers ==
  {[kind |-> "absent", addrs |-> <<>>]}
    \cup {[kind |-> "one", addrs |-> <<a>>] : a \in AddrObjects}
    \cup {[kind |-> "list", addrs |-> s] : s \in SeqsUpTo(AddrObjects, MaxAddrs)}

ParsedMails == [messageId : {"", "m1"}, to : Headers, cc : Headers, bcc : Headers]

\* a?.text || a?.address
TextOrAddress(a) == IF a.text # "" THEN a.text ELSE a.address

\* .filter(Boolean) on a list of strings
FilterBoolean(s) == SelectSeq(s, LAMBDA x : x # "")

\* a variant of toArray: the list is not filtered
toArrayUnfiltered(addr) ==
  IF addr.kind = "absent" THEN <<>>
  ELSE [i \in 1..Len(addr.addrs) |-> TextOrAddress(addr.addrs[i])]

\* toArray, lines 225-229
toArray(addr) ==
  IF addr.kind = "absent" THEN <<>>
  ELSE IF addr.kind = "list"
    THEN FilterBoolean([i \in 1..Len(addr.addrs) |-> TextOrAddress(addr.addrs[i])])
    ELSE FilterBoolean(<<TextOrAddress(addr.addrs[1])>>)

\* x.length ? x : undefined (<<>>: undefined, <<x>>: x)
OrUndefined(x) == IF Len(x) # 0 THEN <<x>> ELSE <<>>

\* `${account.id}-${parsed.messageId || seqno}`, line 236
CompositeId(accountId, messageId, seqno) ==
  <<accountId, IF messageId # "" THEN messageId ELSE ToString(seqno)>>

\* the emailDoc of lines 231-256: its id and address fields
BuildDoc(accountId, mail, seqno) ==
  [id |-> CompositeId(accountId, mail.messageId, seqno),
   to |-> toArray(mail.to),
   cc |-> OrUndefined(toArray(mail.cc)),
   bcc |-> OrUndefined(toArray(mail.bcc))]

\* a parsed message is handed to the normalisation
InitNormalize ==
  /\ accounts = [id \in AccountIds |-> None]
  /\ objs = <<>>
  /\ conns = <<>>
  /\ timers = <<>>
  /\ tasks = <<>>
  /\ sink = {}
  /\ classified = {}
  /\ cyclesStarted = 0
  /\ stopAllResolved = FALSE
  /\ processErrors = {}
  /\ mailbox = <<>>
  /\ indexed = {}
  /\ parsed \in {<<m>> : m \in ParsedMails}
  /\ emailDoc = <<>>
  /\ notification = NoNotification
  /\ classification = <<>>
  /\ documents = NoDocuments
  /\ classifyCall = <<>>
  /\ fetchRequest = <<>>
  /\ droppedSignals = 0

Normalize ==
  /\ parsed # <<>> /\ emailDoc = <<>>
  /\ emailDoc' = <<BuildDoc("a1", parsed[1], 1)>>
  /\ UNCHANGED <<accounts, objs, conns, timers, tasks, sink, classified,
                 cyclesStarted, stopAllResolved, processErrors, mailbox,
                 indexed, parsed, svcVars>>

\* The normalisation of one parsed message.
NextNormalize == Normalize

SpecNormalize == InitNormalize /\ [][NextNormalize]_vars

\* ------------------------------------------------ the mailbox on the server

\* Message-ID headers; "" for a message that has none
MessageIds == {"", "m1", "m2"}

\* the messages the run has seen so far, each known by the number msg it
\* was delivered as (history state)
SeenMsgs == {mailbox[i].msg : i \in 1..Len(mailbox)} \cup {d.msg : d \in indexed}

\* a message arrives in INBOX and gets the next sequence number; if it has
\* a Message-ID, no other message has the same one
Deliver(mid) ==
  /\ Cardinality(SeenMsgs) < MaxMsgs
  /\ mid # "" => /\ \A i \in 1..Len(mailbox) : mailbox[i].messageId # mid
                 /\ \A d \in indexed : d.messageId # mid
  /\ mailbox' = Append(mailbox, [msg |-> Cardinality(SeenMsgs) + 1, messageId |-> mid])
  /\ UNCHANGED <<accounts, objs, conns, timers, tasks, sink, classified,
                 cyclesStarted, stopAllResolved, processErrors, indexed,
                 parsed, emailDoc, svcVars>>

\* the message with sequence number i is expunged: the messages after it
\* move down by one.  The 'expunge' handler (lines 121-123) logs it.
ExpungeMessage(i) ==
  /\ i \in 1..Len(mailbox)
  /\ mailbox[i].msg \in {d.msg : d \in indexed}
  /\ mailbox' = RemoveAt(mailbox, i)
  /\ UNCHANGED <<accounts, objs, conns, timers, tasks, sink, classified,
                 cyclesStarted, stopAllResolved, processErrors, indexed,
                 parsed, emailDoc, svcVars>>

\* a fetch cycle hands message i to processEmail with seqno = i, and the
\* document is built and indexed under its id (lines 236, 258)
ProcessMessage(i) ==
  /\ i \in 1..Len(mailbox)
  /\ indexed' = indexed \cup
       {[msg |-> mailbox[i].msg, messageId |-> mailbox[i].messageId,
         id |-> CompositeId("a1", mailbox[i].messageId, i)]}
  /\ UNCHANGED <<accounts, objs, conns, timers, tasks, sink, classified,
                 cyclesStarted, stopAllResolved, processErrors, mailbox,
                 parsed, emailDoc, svcVars>>

\* The mailbox of one account over fetch cycles, deliveries and expunges.
NextMailbox ==
  \/ \E mid \in MessageIds : Deliver(mid)
  \/ \E i \in 1..MaxMsgs :
       \/ ExpungeMessage(i)
       \/ ProcessMessage(i)

SpecMailbox == Init /\ [][NextMailbox]_vars

\* ------------------------------------------------------- notifications

MAX_RETRIES == 3
INITIAL_DELAY == 1000
MAX_DELAY == 10000

\* values of SLACK_WEBHOOK_URL and WEBHOOK_SITE_URL in process.env: not
\* set (<<>>), set to the empty string, or set to a URL
EnvValues == {<<>>, <<"">>, <<"https://hook">>}

\* !url is false: the variable is set and is not the empty string
Configured(url) == url # <<>> /\ url[1] # ""

\* the errors a post is rejected with: the HTTP status of the response, if
\* there was one, and the message
HttpErrors ==
  {[status |-> <<500>>, message |-> "Request failed with status code 500"],
   [status |-> <<429>>, message |-> "Request failed with status code 429"],
   [status |-> <<404>>, message |-> "Request failed with status code 404"],
   [status |-> <<>>, message |-> "timeout of 10000ms exceeded"],
   [status |-> <<>>, message |-> "certificate has expired"]}

\* the words of isRetryableError that the lower-cased message includes
IncludedWords(message) ==
  IF message = "timeout of 10000ms exceeded" THEN {"timeout"} ELSE {}

isRetryableError(error) ==
  \/ error.status # <<>> /\ error.status[1] >= 500
  \/ error.status = <<408>>
  \/ error.status = <<429>>
  \/ IncludedWords(error.message) \cap
       {"timeout", "connection", "network", "econnreset", "enotfound"} # {}

\* a variant of the delay below that does not grow with the attempt
calculateBackoffDelayFlat(attempt) == Min(INITIAL_DELAY, MAX_DELAY)

calculateBackoffDelay(attempt) ==
  Min(INITIAL_DELAY * Pow2(attempt - 1), MAX_DELAY)

\* the first post of a channel: sendWithRetry calls requestFn, attempt 1
FirstPost ==
  [state |-> "pending", attempt |-> 1, posts |-> 1, delay |-> 0, error |-> <<>>]

\* notifyInterested up to Promise.allSettled (lines 40-93): with no URL it
\* returns at once with one error; otherwise every configured channel posts
notifyInterested(slackWebhookUrl, webhookSiteUrl) ==
  /\ notification.pc # "sending"
  /\ LET url == [ch \in Channels |->
                   IF ch = "Slack" THEN slackWebhookUrl ELSE webhookSiteUrl]
     IN  notification' =
           IF ~Configured(slackWebhookUrl) /\ ~Configured(webhookSiteUrl)
           THEN [pc |-> "returned", url |-> url,
                 chan |-> [ch \in Channels |-> NoChannel],
                 result |-> [NewResult EXCEPT
                               !.errors = <<<<"", "No notification URLs configured">>>>]]
           ELSE [pc |-> "sending", url |-> url,
                 chan |-> [ch \in Channels |->
                             IF Configured(url[ch]) THEN FirstPost ELSE NoChannel],
                 result |-> NewResult]
  /\ UNCHANGED <<accounts, objs, conns, timers, tasks, sink, classified,
                 cyclesStarted, stopAllResolved, processErrors, mailbox,
                 indexed, parsed, emailDoc, classification, sideVars>>

\* the post of a channel is answered with a 2xx: sendWithRetry returns and
\* the .then of the channel sets its flag (lines 67-70, 81-84)
PostOk(ch) ==
  /\ notification.pc = "sending"
  /\ notification.chan[ch].state = "pending"
  /\ notification' =
       [notification EXCEPT
          !.chan[ch].state = "ok",
          !.result.slackSuccess = IF ch = "Slack" THEN TRUE ELSE @,
          !.result.webhookSuccess = IF ch = "Webhook" THEN TRUE ELSE @]
  /\ UNCHANGED <<accounts, objs, conns, timers, tasks, sink, classified,
                 cyclesStarted, stopAllResolved, processErrors, mailbox,
                 indexed, parsed, emailDoc, classification, sideVars>>

\* the post of a channel is rejected (sendWithRetry's catch, lines 224-236):
\* a retryable error before the last attempt sleeps and retries; any other
\* is rethrown and the .catch of the channel pushes one entry to errors.
\* The channel keeps the error that was caught last.
PostFails(ch, error) ==
  /\ notification.pc = "sending"
  /\ notification.chan[ch].state = "pending"
  /\ notification' =
       IF notification.chan[ch].attempt < MAX_RETRIES /\ isRetryableError(error)
       THEN [notification EXCEPT
               !.chan[ch].state = "sleeping",
               !.chan[ch].error = <<error>>,
               !.chan[ch].delay = calculateBackoffDelay(notification.chan[ch].attempt)]
       ELSE [notification EXCEPT
               !.chan[ch].state = "failed",
               !.chan[ch].error = <<error>>,
               !.result.errors = Append(@, <<ch, error.message>>)]
  /\ UNCHANGED <<accounts, objs, conns, timers, tasks, sink, classified,
                 cyclesStarted, stopAllResolved, processErrors, mailbox,
                 indexed, parsed, emailDoc, classification, sideVars>>

\* the sleep before a retry is over: the next attempt posts
RetryPost(ch) ==
  /\ notification.pc = "sending"
  /\ notification.chan[ch].state = "sleeping"
  /\ notification' =
       [notification EXCEPT
          !.chan[ch].state = "pending",
          !.chan[ch].attempt = @ + 1,
          !.chan[ch].posts = @ + 1,
          !.chan[ch].delay = 0]
  /\ UNCHANGED <<accounts, objs, conns, timers, tasks, sink, classified,
                 cyclesStarted, stopAllResolved, processErrors, mailbox,
                 indexed, parsed, emailDoc, classification, sideVars>>

\* variant: the overall flag needs both channels
SettledNeedsBoth ==
  /\ notification.pc = "sending"
  /\ \A ch \in Channels : notification.chan[ch].state \in {"none", "ok", "failed"}
  /\ notification' =
       [notification EXCEPT
          !.pc = "returned",
          !.result.success =
             notification.result.slackSuccess /\ notification.result.webhookSuccess]
  /\ UNCHANGED <<accounts, objs, conns, timers, tasks, sink, classified,
                 cyclesStarted, stopAllResolved, processErrors, mailbox,
                 indexed, parsed, emailDoc, classification, sideVars>>

\* Promise.allSettled resolves when every channel has settled; the overall
\* flag is computed and the result returned (lines 95-105)
Settled ==
  /\ notification.pc = "sending"
  /\ \A ch \in Channels : notification.chan[ch].state \in {"none", "ok", "failed"}
  /\ notification' =
       [notification EXCEPT
          !.pc = "returned",
          !.result.success =
             notification.result.slackSuccess \/ notification.result.webhookSuccess]
  /\ UNCHANGED <<accounts, objs, conns, timers, tasks, sink, classified,
                 cyclesStarted, stopAllResolved, processErrors, mailbox,
                 indexed, parsed, emailDoc, classification, sideVars>>

\* Calls of notifyInterested under every configuration of the two URLs.
NextNotify ==
  \/ \E s, w \in EnvValues : notifyInterested(s, w)
  \/ \E ch \in Channels :
       \/ PostOk(ch)
       \/ \E error \in HttpErrors : PostFails(ch, error)
       \/ RetryPost(ch)
  \/ Settled

SpecNotify == Init /\ [][NextNotify]_vars

\* every await of the call is answered: the posts by the HTTP client (axios
\* with a timeout) and the sleeps by their timers
SpecNotifyFair == SpecNotify /\ WF_vars(NextNotify)

\* ------------------------------------------------------- classification

\* Strings the parser works on are sequences of characters.
validCategories ==
  <<<<"I", "n", "t", "e", "r", "e", "s", "t", "e", "d">>,
    <<"M", "e", "e", "t", "i", "n", "g", " ", "B", "o", "o", "k", "e", "d">>,
    <<"N", "o", "t", " ", "I", "n", "t", "e", "r", "e", "s", "t", "e", "d">>,
    <<"O", "u", "t", " ", "o", "f", " ", "O", "f", "f", "i", "c", "e">>,
    <<"F", "o", "l", "l", "o", "w", " ", "U", "p">>,
    <<"S", "p", "a", "m">>,
    <<"I", "m", "p", "o", "r", "t", "a", "n", "t">>,
    <<"N", "e", "w", "s", "l", "e", "t", "t", "e", "r">>>>

FollowUp == <<"F", "o", "l", "l", "o", "w", " ", "U", "p">>

UpperCase == <<"A", "B", "C", "D", "E", "F", "G", "H", "I", "J", "K", "L", "M", "N", "O", "P", "Q", "R", "S", "T", "U", "V", "W", "X", "Y", "Z">>

LowerCase == <<"a", "b", "c", "d", "e", "f", "g", "h", "i", "j", "k", "l", "m", "n", "o", "p", "q", "r", "s", "t", "u", "v", "w", "x", "y", "z">>

toLowerCase(s) ==
  [i \in 1..Len(s) |->
     IF \E k \in 1..Len(UpperCase) : UpperCase[k] = s[i]
     THEN LowerCase[CHOOSE k \in 1..Len(UpperCase) : UpperCase[k] = s[i]]
     ELSE s[i]]

WhiteSpace == {" ", "\n", "\t"}

RECURSIVE trimStart(_)
trimStart(s) ==
  IF s # <<>> /\ Head(s) \in WhiteSpace THEN trimStart(Tail(s)) ELSE s

RECURSIVE trimEnd(_)
trimEnd(s) ==
  IF s # <<>> /\ s[Len(s)] \in WhiteSpace
  THEN trimEnd(SubSeq(s, 1, Len(s) - 1)) ELSE s

trim(s) == trimEnd(trimStart(s))

\* JSON values of the fields the parser reads; numbers are in hundredths
JUndefined == [type |-> "undefined", str |-> <<>>, num |-> 0]

JNull == [type |-> "null", str |-> <<>>, num |-> 0]

JNaN == [type |-> "nan", str |-> <<>>, num |-> 0]

JStr(s) == [type |-> "string", str |-> s, num |-> 0]

JNum(n) == [type |-> "number", str |-> <<>>, num |-> n]

\* !v is false
Truthy(v) ==
  \/ v.type = "string" /\ v.str # <<>>
  \/ v.type = "number" /\ v.num # 0

\* category texts the model may answer with: a word, with or without a
\* blank before and after it
CategoryWords ==
  {validCategories[k] : k \in 1..Len(validCategories)} \cup
    {<<"i", "n", "t", "e", "r", "e", "s", "t", "e", "d">>, <<"S", "P", "A", "M">>, <<"M", "a", "y", "b", "e">>, <<>>}

Pads == {<<>>, <<" ">>}

CategoryValues ==
  {JUndefined, JNull, JNum(0), JNum(5)} \cup
    {JStr(l \o w \o r) : l \in Pads, w \in CategoryWords, r \in Pads}

ConfidenceValues ==
  {JUndefined, JNull, JNum(-10), JNum(90), JNum(150),
   JStr(<<"0", ".", "9">>), JStr(<<"h", "i", "g", "h">>)}

ReasoningValues == {JUndefined, JStr(<<"r">>)}

\* the JSON in a response: an object with the three fields, the literal
\* null, or text that is no JSON
Bodies ==
  {[kind |-> "garbage", category |-> JUndefined, confidence |-> JUndefined,
    reasoning |-> JUndefined],
   [kind |-> "null", category |-> JUndefined, confidence |-> JUndefined,
    reasoning |-> JUndefined]} \cup
  {[kind |-> "object", category |-> c, confidence |-> f, reasoning |-> r] :
     c \in CategoryValues, f \in ConfidenceValues, r \in ReasoningValues}

\* what surrounds the JSON in the response text: nothing, a ```json fence,
\* prose before and after, or prose with a closing brace after the JSON
Wraps == {"plain", "fenced", "prose", "braces"}

Responses == {[wrap |-> w, body |-> b] : w \in Wraps, b \in Bodies}

\* JSON.parse throws on the cleaned text (lines 322-334): the fences are
\* removed and the text from the first { to the last } is taken; prose stays
\* when there is no brace, and a brace in the prose after the JSON widens
\* the match
ParseThrows(response) ==
  \/ response.body.kind = "garbage"
  \/ response.wrap = "braces"
  \/ response.wrap = "prose" /\ response.body.kind = "null"

Digits == <<"0", "1", "2", "3", "4", "5", "6", "7", "8", "9">>

IsDigit(ch) == \E k \in 1..Len(Digits) : Digits[k] = ch

DigitValue(ch) == (CHOOSE k \in 1..Len(Digits) : Digits[k] = ch) - 1

\* parseFloat of a short decimal text, in hundredths; NaN without a
\* leading digit
parseFloat(s) ==
  IF s = <<>> \/ ~IsDigit(s[1]) THEN JNaN
  ELSE IF Len(s) >= 3 /\ s[2] = "." /\ IsDigit(s[3])
       THEN JNum(100 * DigitValue(s[1]) + 10 * DigitValue(s[3])
                   + (IF Len(s) >= 4 /\ IsDigit(s[4]) THEN DigitValue(s[4]) ELSE 0))
       ELSE JNum(100 * DigitValue(s[1]))

\* lines 361-366
NormalizeConfidence(parsedConfidence) ==
  LET confidence == IF parsedConfidence.type = "string"
                    THEN parseFloat(parsedConfidence.str)
                    ELSE parsedConfidence
  IN  IF confidence.type = "nan" \/ (confidence.type = "number" /\ confidence.num < 0)
      THEN JNum(50)
      ELSE IF confidence.type = "number" /\ confidence.num > 100
           THEN JNum(100)
           ELSE confidence

\* the result of the catch block (lines 373-383)
DefaultClassification ==
  [category |-> FollowUp, confidence |-> JNum(50), reasoning |-> "default"]

Includes(seq, s) == \E k \in 1..Len(seq) : seq[k] = s

\* the result of the try block (lines 368-372)
Classified(category, parsedBody) ==
  [category |-> category,
   confidence |-> NormalizeConfidence(parsedBody.confidence),
   reasoning |-> IF Truthy(parsedBody.reasoning) THEN "given" ELSE "none"]

\* lines 320-384: a thrown error (JSON.parse, a missing field, trim on a
\* value that is no string, a category that matches no valid name) ends in
\* the catch block
parseClassificationResult(response) ==
  IF ParseThrows(response) \/ response.body.kind = "null"
  THEN DefaultClassification
  ELSE LET parsedBody == response.body IN
    IF ~Truthy(parsedBody.category) \/ parsedBody.confidence.type = "undefined"
    THEN DefaultClassification
    ELSE IF parsedBody.category.type # "string"
    THEN DefaultClassification
    ELSE LET normalizedCategory == trim(parsedBody.category.str) IN
      IF Includes(validCategories, normalizedCategory)
      THEN Classified(parsedBody.category.str, parsedBody)
      ELSE IF \E k \in 1..Len(validCategories) :
                toLowerCase(validCategories[k]) = toLowerCase(normalizedCategory)
           THEN Classified(
                  validCategories[CHOOSE k \in 1..Len(validCategories) :
                    toLowerCase(validCategories[k]) = toLowerCase(normalizedCategory)],
                  parsedBody)
           ELSE DefaultClassification

\* classifyEmail hands the model's response to the parser (lines 96-97)
ParseResponse(response) ==
  /\ classification = <<>>
  /\ classification' =
       <<[response |-> response, result |-> parseClassificationResult(response)]>>
  /\ UNCHANGED <<accounts, objs, conns, timers, tasks, sink, classified,
                 cyclesStarted, stopAllResolved, processErrors, mailbox,
                 indexed, parsed, emailDoc, notification, sideVars>>

\* The parser over the responses of the model.
NextClassify == \E response \in Responses : ParseResponse(response)

SpecClassify == Init /\ [][NextClassify]_vars

\* ----------------------------------------- the fetch of a search answer
\* part_003, lines 182-211: what the search callback does with its results.

\* the lists an UNSEEN search answers with: ascending message identifiers
MaxFound == 12
MaxFirst == 6
ResultLists ==
  {[i \in 1..n |-> first + (i - 1) * step] :
     n \in 0..MaxFound, first \in 1..MaxFirst, step \in 1..2}

\* a variant of slice that counts a negative start from the front
sliceFromFront(array, start) ==
  SubSeq(array, 1, Min(IF start < 0 THEN 0 - start ELSE start, Len(array)))

\* Array.prototype.slice(start): a negative start counts from the end and is
\* clamped to the front; the elements from there to the end are copied
slice(array, start) ==
  LET k == IF start < 0
             THEN (IF Len(array) + start < 0 THEN 0 ELSE Len(array) + start)
             ELSE Min(start, Len(array))
  IN  SubSeq(array, k + 1, Len(array))

\* the search callback without an error (lines 182-211), on the identifiers
\* themselves (SearchDone carries their number through the session): a
\* non-empty result issues one fetch, of results.slice(-10); an empty one
\* issues none
SearchAnswered(results) ==
  /\ fetchRequest = <<>>
  /\ fetchRequest' =
       <<[results |-> results,
          fetched |-> IF Len(results) > 0
                        THEN <<slice(results, 0 - FETCH_LAST)>>
                        ELSE <<>>]>>
  /\ UNCHANGED <<accounts, objs, conns, timers, tasks, sink, classified,
                 cyclesStarted, stopAllResolved, processErrors, mailbox,
                 indexed, parsed, emailDoc, notification, classification,
                 documents, classifyCall, droppedSignals>>

NextRequest == \E results \in ResultLists : SearchAnswered(results)

SpecRequest == Init /\ [][NextRequest]_vars

\* ------------------------------------------- classifyAndUpdateEmail
\* part_005, lines 107-135.  The call is followed through its awaits:
\* classifyEmail, updateEmailClassification, getEmailDocument and
\* notifyInterested; each of them resolves or rejects.

\* classifyAndUpdateEmail is called (line 107) and awaits classifyEmail
classifyAndUpdateEmail ==
  /\ classifyCall = <<>>
  /\ classifyCall' =
       <<[stage |-> "classifying", classification |-> <<>>, loaded |-> "none",
          notify |-> "none", returned |-> <<>>]>>
  /\ UNCHANGED <<accounts, objs, conns, timers, tasks, sink, classified,
                 cyclesStarted, stopAllResolved, processErrors, mailbox,
                 indexed, parsed, emailDoc, notification, classification,
                 documents, fetchRequest, droppedSignals>>

\* one await of the call is answered and the call runs to its next await, to
\* its return or to its throw
CallStep(next) ==
  /\ classifyCall' = <<next>>
  /\ UNCHANGED <<accounts, objs, conns, timers, tasks, sink, classified,
                 cyclesStarted, stopAllResolved, processErrors, mailbox,
                 indexed, parsed, emailDoc, notification, classification,
                 documents, fetchRequest, droppedSignals>>

\* classifyEmail resolves with a result of the parser (line 97) or rejects
\* (lines 110, 131-134)
ClassifyEmailDone(result, threw) ==
  /\ classifyCall # <<>>
  /\ classifyCall[1].stage = "classifying"
  /\ CallStep(IF threw
                THEN [classifyCall[1] EXCEPT !.stage = "threw"]
                ELSE [classifyCall[1] EXCEPT !.stage = "updating",
                                             !.classification = <<result>>])

\* updateEmailClassification resolves or rejects (line 113); lines 118 and 129:
\* the document is loaded for the category 'Interested' only, any other
\* category returns
UpdateDone(threw) ==
  /\ classifyCall # <<>>
  /\ classifyCall[1].stage = "updating"
  /\ LET call == classifyCall[1]
         Interested == <<"I", "n", "t", "e", "r", "e", "s", "t", "e", "d">>
     IN  CallStep(
           IF threw THEN [call EXCEPT !.stage = "threw"]
           ELSE IF call.classification[1].category = Interested
             THEN [call EXCEPT !.stage = "loading"]
             ELSE [call EXCEPT !.stage = "returned",
                               !.returned = call.classification])

\* getEmailDocument resolves with the document, or with null when the document
\* is missing or Elasticsearch failed (lines 418-432; it never rejects);
\* lines 121-123: notifyInterested is called for a document only
GetEmailDocumentDone(found) ==
  /\ classifyCall # <<>>
  /\ classifyCall[1].stage = "loading"
  /\ LET call == classifyCall[1]
     IN  CallStep(
           IF found
             THEN [call EXCEPT !.stage = "notifying", !.loaded = "found",
                               !.notify = "called"]
             ELSE [call EXCEPT !.stage = "returned", !.loaded = "null",
                               !.returned = call.classification])

\* a variant of the handler above that lets the error of notifyInterested
\* escape the inner try
NotifyInterestedDoneRethrows(outcome) ==
  /\ classifyCall # <<>>
  /\ classifyCall[1].stage = "notifying"
  /\ LET call == classifyCall[1]
     IN  CallStep(IF outcome = "threw"
                   THEN [call EXCEPT !.stage = "threw", !.notify = outcome]
                   ELSE [call EXCEPT !.stage = "returned", !.notify = outcome,
                                     !.returned = call.classification])

\* notifyInterested resolves with a result that reports success or failure,
\* or rejects; the catch of lines 124-127 swallows the error, line 129 returns
NotifyInterestedDone(outcome) ==
  /\ classifyCall # <<>>
  /\ classifyCall[1].stage = "notifying"
  /\ LET call == classifyCall[1]
     IN  CallStep([call EXCEPT !.stage = "returned", !.notify = outcome,
                               !.returned = call.classification])

NextUpdate ==
  \/ classifyAndUpdateEmail
  \/ \E result \in {parseClassificationResult(r) : r \in Responses},
        threw \in BOOLEAN :
       ClassifyEmailDone(result, threw)
  \/ \E threw \in BOOLEAN : UpdateDone(threw)
  \/ \E found \in BOOLEAN : GetEmailDocumentDone(found)
  \/ \E outcome \in {"sent", "failed", "threw"} : NotifyInterestedDone(outcome)

SpecUpdate == Init /\ [][NextUpdate]_vars

\* ------------------------------------------------ the document sink
\* search.ts.  ES_URL decides the sink of a process: a value that starts with
\* 'mock://' selects the array mockEmails, any other value Elasticsearch.

\* the documents processEmail submits: the id is the compositeId of line 236,
\* indexedAt the time of the submission (line 255)
MaxDocs == 3
MaxStamp == 2
EmailDocs ==
  [id : {"a1-m1", "a1-m2"}, accountId : {"a1"}, subject : {"hello"},
   indexedAt : 1..MaxStamp]

\* indexEmail (lines 74-107).  In mock mode the document is pushed onto the
\* array.  Otherwise err says what goes wrong with Elasticsearch: "ensure",
\* indices.exists or indices.create throws (ensureIndexExists); "index",
\* client.index throws after the index was created; "none", client.index
\* (lines 91-99) replaces the document with this id in this index, or creates
\* it when there is none.
indexEmail(doc, err) ==
  /\ Len(documents.submitted) < MaxDocs
  /\ IF documents.mode = "mock"
       THEN /\ err = "none"
            /\ documents' = [documents EXCEPT
                               !.mockEmails = Append(@, doc),
                               !.submitted = Append(@, doc),
                               !.threw = FALSE]
       ELSE documents' =
              CASE err = "ensure" -> [documents EXCEPT !.threw = TRUE]
                [] err = "index" ->
                     [documents EXCEPT
                        !.indices = @ \cup {doc.accountId},
                        !.threw = TRUE]
                [] OTHER ->
                     [documents EXCEPT
                        !.indices = @ \cup {doc.accountId},
                        !.stored =
                          {d \in @ : ~(/\ d.accountId = doc.accountId
                                       /\ d.id = doc.id)} \cup {doc},
                        !.submitted = Append(@, doc),
                        !.threw = FALSE]
  /\ UNCHANGED <<accounts, objs, conns, timers, tasks, sink, classified,
                 cyclesStarted, stopAllResolved, processErrors, mailbox,
                 indexed, parsed, emailDoc, notification, classification,
                 classifyCall, fetchRequest, droppedSignals>>

\* the matching documents of an index as a sequence, newest first (the sort
\* of lines 201-203 is by date; the model orders by indexedAt)
RECURSIVE Sorted(_)
Sorted(S) ==
  IF S = {} THEN <<>>
  ELSE LET d == CHOOSE x \in S : \A y \in S : x.indexedAt >= y.indexedAt
       IN  <<d>> \o Sorted(S \ {d})

\* searchEmails (lines 164-225): the hits of the page.  An empty query matches
\* every mock document (line 174); otherwise the query has to occur in the
\* searched text, here the subject.
searchEmails(accountId, query, from, size) ==
  LET Matches(d, q, mock) == (mock /\ q = "") \/ d.subject = q IN
  IF documents.mode = "mock"
    THEN LET filtered == SelectSeq(documents.mockEmails,
                                   LAMBDA d : Matches(d, query, TRUE))
         IN  SubSeq(filtered, from + 1, Min(from + size, Len(filtered)))
    ELSE IF accountId \notin documents.indices THEN <<>>
    ELSE LET found == Sorted({d \in documents.stored :
                                /\ d.accountId = accountId
                                /\ Matches(d, query, FALSE)})
         IN  SubSeq(found, from + 1, Min(from + size, Len(found)))

\* a process whose ES_URL selects either sink
InitSink ==
  /\ accounts = [id \in AccountIds |-> None]
  /\ objs = <<>>
  /\ conns = <<>>
  /\ timers = <<>>
  /\ tasks = <<>>
  /\ sink = {}
  /\ classified = {}
  /\ cyclesStarted = 0
  /\ stopAllResolved = FALSE
  /\ processErrors = {}
  /\ mailbox = <<>>
  /\ indexed = {}
  /\ parsed = <<>>
  /\ emailDoc = <<>>
  /\ notification = NoNotification
  /\ classification = <<>>
  /\ documents \in {[NoDocuments EXCEPT !.mode = m] : m \in {"mock", "es"}}
  /\ classifyCall = <<>>
  /\ fetchRequest = <<>>
  /\ droppedSignals = 0

NextSink ==
  \E d \in EmailDocs, err \in {"none", "ensure", "index"} : indexEmail(d, err)

SpecSink == InitSink /\ [][NextSink]_vars

\* ---------------------------------------------------------------- Spec

\* The lifecycle of one account: the manager's calls, the connection's
\* lifecycle events, the reconnect timeouts and the watchdog.
Next ==
  \/ \E id \in AccountIds : (objs = <<>> /\ startImap(id))
  \/ \E id \in AccountIds : stopImap(id)
  \/ stopAll
  \/ \E i \in 1..(MaxConns + MaxObjs + 2) : ReconnectTimerFires(i)
  \/ \E c \in 1..MaxConns :
       \/ ConnReady(c)
       \/ ConnError(c)
       \/ ConnEnd(c)
       \/ Expunge(c)
       \/ OpenBoxDone(c)
       \/ NoopDone(c)
       \/ LogoutDone(c)
  \/ \E o \in 1..MaxObjs : WatchdogTick(o)

Spec == Init /\ [][Next]_vars

\* The manager with several accounts, started and stopped in any order, each
\* connecting, failing and reconnecting on its own.
NextManager ==
  \/ \E id \in AccountIds : startImap(id)
  \/ \E id \in AccountIds : stopImap(id)
  \/ stopAll
  \/ \E i \in 1..(MaxConns + MaxObjs + 2) : ReconnectTimerFires(i)
  \/ \E c \in 1..MaxConns :
       \/ ConnReady(c)
       \/ ConnError(c)
       \/ ConnEnd(c)
       \/ OpenBoxDone(c)
       \/ LogoutDone(c)

SpecManager == Init /\ [][NextManager]_vars

\* The fetch cycle of one account on its connection: new-mail signals, the
\* answers to search and fetch, the delayed resume of listen mode and
\* processEmail, with stopImap and the end of the connection.
NextFetch ==
  \/ (objs = <<>> /\ startImap("a1"))
  \/ stopImap("a1")
  \/ \E c \in 1..MaxConns :
       \/ ConnReady(c)
       \/ ConnEnd(c)
       \/ Mail(c)
       \/ OpenBoxDone(c)
       \/ SearchDone(c)
       \/ FetchMessage(c)
       \/ FetchEnd(c)
       \/ FetchError(c)
       \/ LogoutDone(c)
  \/ \E o \in 1..MaxObjs : ResumeIdleFires(o)
  \/ \E i \in 1..MaxTasks :
       \/ ParseDone(i)
       \/ IndexDone(i)
       \/ ClassifyDone(i)

SpecFetch == Init /\ [][NextFetch]_vars

\* One fetch batch of one account: a new-mail signal, the search, the fetch
\* and the processEmail calls of its messages, which run concurrently; the
\* connection stays up.
NextBatch ==
  \/ (objs = <<>> /\ startImap("a1"))
  \/ \E c \in 1..MaxConns :
       \/ ConnReady(c)
       \/ OpenBoxDone(c)
       \/ (cyclesStarted = 0 /\ Mail(c))
       \/ SearchDone(c)
       \/ FetchMessage(c)
       \/ FetchEnd(c)
       \/ FetchError(c)
  \/ \E o \in 1..MaxObjs : ResumeIdleFires(o)
  \/ \E i \in 1..MaxTasks :
       \/ ParseDone(i)
       \/ IndexDone(i)
       \/ ClassifyDone(i)

SpecBatch == Init /\ [][NextBatch]_vars

\* New-mail signals of one account across failed probes, ended connections
\* and reconnects: a signal finds the account connected or not.
NextSignal ==
  \/ (objs = <<>> /\ startImap("a1"))
  \/ \E i \in 1..(MaxConns + MaxObjs + 2) : ReconnectTimerFires(i)
  \/ \E c \in 1..MaxConns :
       \/ ConnReady(c)
       \/ ConnEnd(c)
       \/ OpenBoxDone(c)
       \/ NoopDone(c)
       \/ (cyclesStarted = 0 /\ Mail(c))
       \/ MailDropped(c)
       \/ SearchDone(c)
       \/ FetchMessage(c)
       \/ FetchEnd(c)
  \/ \E o \in 1..MaxObjs : WatchdogTick(o) \/ ResumeIdleFires(o)

SpecSignal == Init /\ [][NextSignal]_vars

\* the account an object, a connection, a reconnect timeout or a
\* processEmail call belongs to ("" when there is none)
IdOfObj(o) == IF o \in Objs THEN objs[o].id ELSE ""

IdOfConn(c) == IF c \in Conns THEN objs[conns[c].obj].id ELSE ""

IdOfTimer(i) == IF i \in 1..Len(timers) THEN objs[timers[i].obj].id ELSE ""

IdOfTask(i) == IF i \in 1..Len(tasks) THEN objs[tasks[i].obj].id ELSE ""

\* the object of reconnect timeout i has no connection that is up
NoLiveConn(i) ==
  i \in 1..Len(timers) => \A c \in Conns : conns[c].obj = timers[i].obj => ~Live(c)

\* object o is at rest: listening on its open connection with
\* nothing in flight, or waiting for its one reconnect timeout
ObjAtRest(o) ==
  LET ob == objs[o]
      mine == {c \in Conns : conns[c].obj = o}
  IN  \/ /\ ~ob.stopped /\ ob.isConnected /\ ob.connection \in mine
         /\ \A c \in mine :
              IF c = ob.connection
              THEN conns[c].state = "open" /\ conns[c].idling /\ conns[c].queue = <<>>
              ELSE ~Live(c)
         /\ (\A i \in 1..Len(timers) : timers[i].obj # o) /\ ob.resumePending = 0
         /\ \A i \in 1..Len(tasks) : tasks[i].obj # o
      \/ /\ ~ob.stopped /\ ~ob.isConnected
         /\ Cardinality({i \in 1..Len(timers) : timers[i].obj = o}) = 1
         /\ \A c \in mine : ~Live(c)
         /\ \A i \in 1..Len(tasks) : tasks[i].obj # o

\* every account but id is at rest: the events of id's session may run
Turn(id) ==
  \A o \in Objs : objs[o].id # id => ObjAtRest(o)

\* One session after a probe failure followed by a transport error on its
\* first connection (start, ready, openBox, a failed noop, 'error'): the
\* counter is 2 and the timeouts of attempts 1 and 2 are pending.  The
\* failed connection is down and emits nothing more; it is left out of the
\* list of connections.
InitWatchdog ==
  /\ accounts = [id \in AccountIds |-> IF id = "a1" THEN 1 ELSE None]
  /\ objs = <<[NewAccount("a1") EXCEPT !.reconnectAttempts = 2]>>
  /\ conns = <<>>
  /\ timers = <<[obj |-> 1, attempt |-> 1, delay |-> INITIAL_RECONNECT_DELAY],
                [obj |-> 1, attempt |-> 2, delay |-> 2 * INITIAL_RECONNECT_DELAY]>>
  /\ tasks = <<>>
  /\ sink = {}
  /\ classified = {}
  /\ cyclesStarted = 0
  /\ stopAllResolved = FALSE
  /\ processErrors = {}
  /\ mailbox = <<>>
  /\ indexed = {}
  /\ parsed = <<>>
  /\ emailDoc = <<>>
  /\ notification = NoNotification
  /\ classification = <<>>
  /\ documents = NoDocuments
  /\ classifyCall = <<>>
  /\ fetchRequest = <<>>
  /\ droppedSignals = 0

\* The two pending reconnects of the session run their course: each
\* creates a connection, the connections become ready, are probed, fail or
\* end, and the session is stopped.
NextWatchdog ==
  \/ stopImap("a1")
  \/ \E i \in 1..(MaxConns + MaxObjs + 2) : ReconnectTimerFires(i)
  \/ \E c \in 1..MaxConns :
       \/ ConnReady(c)
       \/ ConnError(c)
       \/ ConnEnd(c)
       \/ OpenBoxDone(c)
       \/ NoopDone(c)
  \/ \E o \in 1..MaxObjs : WatchdogTick(o)

SpecWatchdog == InitWatchdog /\ [][NextWatchdog]_vars

\* Two accounts side by side, each started once: the manager's calls, the
\* events of the connections, the reconnects, the probes, one fetch cycle
\* and its processEmail calls.  The events of an account are interleaved
\* with those of the other at the points where the other is at rest;
\* connection failures come before the fetch cycle, and a reconnect
\* timeout fires once the failed connection is down.
NextPair ==
  \/ \E id \in AccountIds :
       (Turn(id) /\ (\A o \in Objs : objs[o].id # id) /\ startImap(id))
  \/ \E id \in AccountIds : (Turn(id) /\ stopImap(id))
  \/ stopAll
  \/ \E i \in 1..(MaxConns + MaxObjs + 2) :
       (Turn(IdOfTimer(i)) /\ NoLiveConn(i) /\ ReconnectTimerFires(i))
  \/ \E c \in 1..MaxConns :
       /\ Turn(IdOfConn(c))
       /\ \/ ConnReady(c)
          \/ (cyclesStarted = 0 /\ timers = <<>> /\ ConnError(c))
          \/ ConnEnd(c)
          \/ OpenBoxDone(c)
          \/ (cyclesStarted = 0 /\ timers = <<>> /\ NoopDone(c))
          \/ (cyclesStarted = 0 /\ timers = <<>> /\ Mail(c))
          \/ SearchDone(c)
          \/ (tasks = <<>> /\ FetchMessage(c))
          \/ FetchEnd(c)
  \/ \E o \in 1..MaxObjs :
       /\ Turn(IdOfObj(o))
       /\ \/ (cyclesStarted = 0 /\ WatchdogTick(o))
          \/ ResumeIdleFires(o)
  \/ \E i \in 1..MaxTasks :
       /\ Turn(IdOfTask(i))
       /\ \/ ParseDone(i)
          \/ IndexDone(i)
          \/ ClassifyDone(i)

SpecPair == Init /\ [][NextPair]_vars

\* ==================================================================
\* The claims
\* ==================================================================

\* C1 (as claimed): at most one fetch cycle of a session is in flight at any
\* time: a new-mail signal that arrives while a cycle runs starts no second,
\* concurrent cycle.
C1_AtMostOneCycleInFlight ==
  \A o \in Objs : ~objs[o].stopped => CyclesInFlight(o) <= 1

\* C2 (as claimed): however many new-mail signals arrive while a fetch cycle
\* of a session runs, they start one follow-up cycle between them, not one
\* cycle per signal.
C2_SignalsWhileBusyCoalesce ==
  \A o \in Objs : ~objs[o].stopped => FollowUpsInFlight(o) <= 1

\* C7 (as claimed): once stopImap has been called on a session that was in
\* the middle of a fetch, the status query answers absent for its account and
\* the sink and the classifier receive no record of that session any more.
C7_NoRecordAfterStopMidFetch ==
  /\ \A o \in Objs :
       objs[o].stoppedBusy => getAccountStatus(accounts, objs, objs[o].id) = NoStatus
  /\ \A r \in sink \cup classified :
       ~(r.afterStop /\ objs[r.obj].stoppedBusy)

\* what the properties count
NoopsOf(cs, o) ==
  Cardinality({p \in Places(cs) :
                 /\ cs[p[1]].queue[p[2]].op = "noop"
                 /\ cs[p[1]].queue[p[2]].obj = o})

TimersOf(ts, o) == Cardinality({i \in 1..Len(ts) : ts[i].obj = o})

ConnectIssued(o) == Len(conns') > Len(conns) /\ conns'[Len(conns')].obj = o

ListenEntered(o) ==
  \E c \in Conns : conns[c].obj = o /\ ~conns[c].idling /\ conns'[c].idling

\* C3 (as claimed): once handleReconnect has found the attempts of a session
\* exhausted, the session stays failed: it never becomes connected, its
\* counter is never reset, no reconnect is scheduled and no connect is issued.
C3_FailedIsTerminal ==
  [][\A o \in Objs :
       objs[o].failed =>
         /\ ~objs'[o].isConnected
         /\ objs'[o].reconnectAttempts = objs[o].reconnectAttempts
         /\ TimersOf(timers', o) <= TimersOf(timers, o)
         /\ ~ConnectIssued(o)]_vars

\* the delay of attempt k, in milliseconds
DelayTable == <<1000, 2000, 4000, 8000, 16000>>

\* C4: every reconnect timeout is scheduled for an attempt k in 1..5 with the
\* delay 1000, 2000, 4000, 8000, 16000 ms of that attempt, and whenever the
\* attempt counter of a session grows it grows by exactly 1, with a timeout
\* scheduled for the new attempt.
C4_BackoffDelays ==
  /\ [](\A i \in 1..Len(timers) :
          /\ timers[i].attempt \in 1..MAX_RECONNECT_ATTEMPTS
          /\ timers[i].delay = DelayTable[timers[i].attempt])
  /\ [][\A o \in Objs :
          objs'[o].reconnectAttempts > objs[o].reconnectAttempts =>
            /\ objs'[o].reconnectAttempts = objs[o].reconnectAttempts + 1
            /\ \E i \in 1..Len(timers') :
                 /\ timers'[i].obj = o
                 /\ timers'[i].attempt = objs'[o].reconnectAttempts]_vars

\* the fifth attempt is scheduled, 16 seconds ahead
C4_Witness ==
  \E i \in 1..Len(timers) :
    timers[i].attempt = MAX_RECONNECT_ATTEMPTS /\ timers[i].delay = 16000

\* C5: whenever a connection emits ready, its session is connected with
\* reconnectAttempts = 0 and reconnectDelay = the initial delay.
C5_ReadyResets ==
  [][\A c \in Conns :
       (conns[c].state = "connecting" /\ conns'[c].state = "open") =>
         LET o == conns[c].obj IN
           /\ objs'[o].isConnected
           /\ objs'[o].reconnectAttempts = 0
           /\ objs'[o].reconnectDelay = INITIAL_RECONNECT_DELAY]_vars

\* the connection of a retry that followed a failed connection is ready, and
\* the counter is back at 0
C5_Witness ==
  \E c \in Conns :
    /\ conns[c].state = "open" /\ c >= 2
    /\ \A d \in 1..(c - 1) : conns[d].obj = conns[c].obj /\ ~Live(d)
    /\ objs[conns[c].obj].connection = c
    /\ objs[conns[c].obj].isConnected
    /\ objs[conns[c].obj].reconnectAttempts = 0

\* C6 (as claimed): a session on which stopImap has been called never
\* afterwards issues a connect, a probe or a listen-mode entry, and never
\* becomes connected.
C6_StoppedSessionIsQuiet ==
  [][\A o \in Objs :
       objs[o].stopped =>
         /\ ~ConnectIssued(o)
         /\ NoopsOf(conns', o) <= NoopsOf(conns, o)
         /\ ~ListenEntered(o)
         /\ (objs'[o].isConnected => objs[o].isConnected)]_vars

\* C8 (as claimed): startImap on an id that has a session leaves the session
\* registered: the registry entry of an id changes only from absent to a
\* session or from a session to absent.
C8_StartKeepsActiveSession ==
  [][\A id \in AccountIds :
       accounts[id] # None => accounts'[id] \in {accounts[id], None}]_vars

\* C9: stopImap on an id without a session changes nothing, a second
\* stopImap(id) after a first changes nothing, and after stopImap(id) the
\* status query answers absent for id.
C9_StopIdempotent ==
  \A id \in AccountIds :
    LET once == StopOne(MgrState, id) IN
      /\ accounts[id] = None => once = MgrState
      /\ StopOne(once, id) = once
      /\ getAccountStatus(once.accounts, once.objs, id) = NoStatus

\* a connected session has been stopped, its logout is still in flight
C9_Witness ==
  \E o \in Objs :
    /\ objs[o].stopped /\ objs[o].isConnected
    /\ accounts[objs[o].id] = None
    /\ objs[o].connection \in Conns
    /\ \E i \in 1..Len(conns[objs[o].connection].queue) :
         conns[objs[o].connection].queue[i].op = "logout"

\* a session has finished its cleanup
CleanedUp(o, os, cs, ts) ==
  /\ TimersOf(ts, o) = 0
  /\ ~os[o].watchdogTimer
  /\ os[o].resumePending = 0
  /\ \A c \in 1..Len(cs) :
       cs[c].obj = o =>
         \/ cs[c].state \notin {"connecting", "open"}
         \/ \E i \in 1..Len(cs[c].queue) : cs[c].queue[i].op = "logout"

\* C10 (as claimed): when stopAll resolves, every session that was
\* registered has finished its cleanup (no reconnect timeout, watchdog or
\* resume timeout of it is pending and each of its connections is closed or
\* closing), and once stopAll has resolved the status query answers absent
\* for every account.
C10_StopAllFinishesCleanup ==
  /\ [](stopAllResolved =>
          \A id \in AccountIds : getAccountStatus(accounts, objs, id) = NoStatus)
  /\ [][(~stopAllResolved /\ stopAllResolved') =>
          \A id \in AccountIds :
            accounts[id] # None => CleanedUp(accounts[id], objs', conns', timers')]_vars

\* the messages processEmail holds, has submitted or has given up on
KeysOf(rs) == {[obj |-> r.obj, seqno |-> r.seqno] : r \in rs}

TaskKeys(ts) == {Key(ts[i]) : i \in 1..Len(ts)}

Handled(ts, sk, errs) == TaskKeys(ts) \cup KeysOf(sk) \cup errs

\* the session is in listen mode or on its way back to it
Listening(o) ==
  \/ objs[o].resumePending > 0
  \/ objs[o].connection \in Conns /\ conns[objs[o].connection].idling

\* C11: in a fetch batch, a message whose parse or whose sink submission
\* fails is logged and dropped alone: no other message of the batch is lost
\* (each stays in processing until it is in the sink or has failed itself),
\* a failed message is not in the sink, the failing step changes neither the
\* session nor its connection, and once the cycle is over the session is
\* back in listen mode or about to re-enter it.
C11_FailureSkipsOneMessage ==
  /\ [](/\ KeysOf(sink) \cap processErrors = {}
        /\ \A o \in Objs :
             (cyclesStarted > 0 /\ CyclesInFlight(o) = 0 /\ objs[o].isConnected)
               => Listening(o))
  /\ [][/\ Handled(tasks, sink, processErrors)
            \subseteq Handled(tasks', sink', processErrors')
        /\ processErrors' # processErrors =>
             /\ Cardinality(processErrors') = Cardinality(processErrors) + 1
             /\ sink' = sink /\ objs' = objs /\ conns' = conns
             /\ TaskKeys(tasks') = TaskKeys(tasks) \ processErrors']_vars

\* a batch of two messages is over: one failed, the sink has the other one,
\* and the session is in listen mode again
C11_Witness ==
  \E o \in Objs :
    /\ processErrors = {[obj |-> o, seqno |-> 1]}
    /\ KeysOf(sink) = {[obj |-> o, seqno |-> 2]}
    /\ tasks = <<>> /\ CyclesInFlight(o) = 0
    /\ objs[o].connection \in Conns /\ conns[objs[o].connection].idling

\* C12: when a search or a fetch reports an error, the session's lifecycle
\* state (connected flag, attempt counter, connection, watchdog, reconnect
\* timeouts, the connection's own state) is as before and, the session being
\* connected, the resume of listen mode is scheduled; when that timeout
\* fires on a connected session, listen mode is entered on its connection.
C12_CycleFailureResumesListening ==
  /\ [][\A c \in Conns :
          conns'[c].cycleErrors > conns[c].cycleErrors =>
            LET o == conns[c].queue[1].obj IN
              /\ objs'[o].isConnected = objs[o].isConnected
              /\ objs'[o].reconnectAttempts = objs[o].reconnectAttempts
              /\ objs'[o].connection = objs[o].connection
              /\ objs'[o].watchdogTimer = objs[o].watchdogTimer
              /\ conns'[c].state = conns[c].state
              /\ timers' = timers
              /\ (objs[o].isConnected /\ objs[o].connection # None) =>
                   objs'[o].resumePending = objs[o].resumePending + 1]_vars
  /\ [][\A o \in Objs :
          (/\ objs'[o].resumePending < objs[o].resumePending
           /\ objs[o].isConnected
           /\ Live(objs[o].connection))
            => conns'[objs[o].connection].idling]_vars

\* a fetch has failed after its first message, and the connection is in
\* listen mode again
C12_Witness ==
  \E c \in Conns :
    /\ conns[c].cycleErrors = 1 /\ conns[c].state = "open"
    /\ KeysOf(sink) # {}
    /\ conns[c].idling /\ objs[conns[c].obj].resumePending = 0

\* C13 (as claimed): the status query tells a session that has exhausted its
\* reconnect attempts apart from one that is still waiting to reconnect: the
\* status of a registered session that has failed differs from the status of
\* every registered session that has not failed and has a reconnect timeout
\* pending.
C13_StatusReportsFailed ==
  \A id1 \in AccountIds : \A id2 \in AccountIds :
    (/\ accounts[id1] # None /\ accounts[id2] # None
     /\ objs[accounts[id1]].failed
     /\ ~objs[accounts[id2]].failed
     /\ TimersOf(timers, accounts[id2]) > 0)
      => getAccountStatus(accounts, objs, id1) # getAccountStatus(accounts, objs, id2)

\* C14 (as claimed): within a fetch batch the sink receives the messages in
\* ascending sequence-number order: while the sink holds a message of the
\* batch, no message of the batch with a smaller sequence number is still
\* waiting for its parse or for its sink submission.
C14_SinkInSequenceOrder ==
  \A r \in sink : \A i \in 1..Len(tasks) :
    (tasks[i].obj = r.obj /\ tasks[i].seqno < r.seqno)
      => tasks[i].stage \notin {"parse", "index"}

\* the lifecycle state of session o, read off the program's state os, cs, ts
Phase(o, os, cs, ts) ==
  IF o \notin 1..Len(os) THEN "Disconnected"
  ELSE IF os[o].isConnected THEN "Listening"
  ELSE IF \E c \in 1..Len(cs) : cs[c].obj = o /\ cs[c].state = "connecting"
    THEN "Connecting"
  ELSE IF TimersOf(ts, o) > 0 THEN "Reconnecting"
  ELSE "Disconnected"

\* C15: a started account is Connecting with reconnectAttempts = 0; a
\* transport error before ready takes it from Connecting to Reconnecting,
\* with reconnectAttempts = 1 and the retry scheduled after the initial
\* delay; when that timeout fires and the retry begins, the session is
\* Connecting again with reconnectAttempts = 1.
C15_ErrorBeforeReadySequence ==
  /\ [][\A o \in 1..MaxObjs :
          (Phase(o, objs, conns, timers) = "Disconnected" /\ o \notin Objs
           /\ ConnectIssued(o))
            => /\ Phase(o, objs', conns', timers') = "Connecting"
               /\ objs'[o].reconnectAttempts = 0]_vars
  /\ [][\A c \in Conns :
          LET o == conns[c].obj IN
          (/\ conns[c].state = "connecting" /\ conns'[c].state = "errored"
           /\ objs[o].reconnectAttempts = 0 /\ TimersOf(timers, o) = 0)
            => /\ Phase(o, objs', conns', timers') = "Reconnecting"
               /\ objs'[o].reconnectAttempts = 1
               /\ timers' = Append(timers, [obj |-> o, attempt |-> 1,
                                            delay |-> INITIAL_RECONNECT_DELAY])]_vars
  /\ [][\A o \in Objs :
          (/\ Phase(o, objs, conns, timers) = "Reconnecting"
           /\ objs[o].reconnectAttempts = 1
           /\ ConnectIssued(o))
            => /\ Phase(o, objs', conns', timers') = "Connecting"
               /\ objs'[o].reconnectAttempts = 1
               /\ objs'[o].connection = Len(conns')]_vars

\* the first connection has failed before ready and the first retry has
\* begun: the session is connecting again, with one attempt counted
C15_Witness ==
  \E o \in Objs :
    /\ Len(conns) = 2
    /\ conns[1].obj = o /\ conns[1].state = "errored"
    /\ conns[2].obj = o /\ conns[2].state = "connecting"
    /\ objs[o].connection = 2
    /\ objs[o].reconnectAttempts = 1
    /\ ~objs[o].isConnected /\ timers = <<>>

\* the address strings of a header, in order: one per address object that
\* has a text or an address
RECURSIVE AddressStrings(_)
AddressStrings(as) ==
  IF as = <<>> THEN <<>>
  ELSE LET a == Head(as)
       IN  (IF a.text # "" THEN <<a.text>>
            ELSE IF a.address # "" THEN <<a.address>> ELSE <<>>)
             \o AddressStrings(Tail(as))

\* C16: the document built from a parsed message has, for each of to, cc and
\* bcc, the address strings of the header; to is a list (empty when there is
\* no address), cc and bcc are undefined exactly when they hold no address
\* and are never an empty list.
C16_AddressFieldsNormalized ==
  emailDoc # <<>> =>
    LET m == parsed[1]
        d == emailDoc[1]
    IN  /\ d.to = AddressStrings(m.to.addrs)
        /\ d.cc = (IF AddressStrings(m.cc.addrs) = <<>>
                     THEN <<>> ELSE <<AddressStrings(m.cc.addrs)>>)
        /\ d.bcc = (IF AddressStrings(m.bcc.addrs) = <<>>
                      THEN <<>> ELSE <<AddressStrings(m.bcc.addrs)>>)
        /\ d.cc # <<<<>>>> /\ d.bcc # <<<<>>>>

\* a message with two recipients in a list, a cc header whose only address
\* object has no address, and no bcc header has been normalised
C16_Witness ==
  /\ emailDoc # <<>>
  /\ parsed[1].to.kind = "list" /\ Len(parsed[1].to.addrs) = 2
  /\ Len(emailDoc[1].to) = 2
  /\ parsed[1].cc.kind = "one" /\ emailDoc[1].cc = <<>>
  /\ parsed[1].bcc.kind = "absent" /\ emailDoc[1].bcc = <<>>

\* C17 (as claimed): within one account, two distinct messages never get
\* the same compositeId.
C17_CompositeIdUnique ==
  \A d1 \in indexed : \A d2 \in indexed :
    d1.msg # d2.msg => d1.id # d2.id

\* C18: the classifier is called for a message only when the sink has taken
\* its document, and never for a message whose processing has failed; each
\* call is for one message whose sink submission succeeds in that step and
\* which has not been classified before; and when a call of the classifier
\* returns or fails, the processEmail calls of the other messages, the
\* sink, the session and its connection are as before.
C18_ClassifyOnceAfterSink ==
  /\ [](/\ KeysOf(classified) \subseteq KeysOf(sink)
        /\ KeysOf(classified) \cap processErrors = {}
        /\ \A i \in 1..Len(tasks) :
             tasks[i].stage = "classify" => Key(tasks[i]) \in KeysOf(classified))
  /\ [][classified' # classified =>
          \E i \in 1..Len(tasks) :
            /\ tasks[i].stage = "index" /\ tasks' = [tasks EXCEPT ![i].stage = "classify"]
            /\ Key(tasks[i]) \notin KeysOf(classified)
            /\ KeysOf(classified') = KeysOf(classified) \cup {Key(tasks[i])}
            /\ Key(tasks[i]) \in KeysOf(sink') \ KeysOf(sink)]_vars
  /\ [][\A i \in 1..Len(tasks) :
          (tasks[i].stage = "classify" /\ Len(tasks') < Len(tasks)
           /\ Key(tasks[i]) \notin TaskKeys(tasks'))
            => /\ tasks' = RemoveAt(tasks, i)
               /\ sink' = sink /\ processErrors' = processErrors
               /\ objs' = objs /\ conns' = conns]_vars

\* of a batch of two messages the processing of the first has failed, the
\* sink has taken the second, and the classifier has been called for the
\* second only
C18_Witness ==
  \E o \in Objs :
    /\ processErrors = {[obj |-> o, seqno |-> 1]}
    /\ KeysOf(sink) = {[obj |-> o, seqno |-> 2]}
    /\ KeysOf(classified) = {[obj |-> o, seqno |-> 2]}
    /\ Len(tasks) = 1 /\ tasks[1].stage = "classify"

\* C19: when the answer to a watchdog probe comes in, either nothing changes
\* (the probe succeeded) or the session is left exactly as the 'error'
\* handler leaves it: marked disconnected and, if its attempts are not
\* exhausted, with reconnectAttempts one higher, its watchdog cancelled and
\* one reconnect timeout added for the new attempt with that attempt's
\* backoff delay; if they are exhausted, with nothing scheduled.
C19_ProbeFailureAsTransportError ==
  [][\A c \in Conns :
       (/\ conns[c].state = "open" /\ conns'[c].state = "open"
        /\ conns[c].queue # <<>> /\ conns[c].queue[1].op = "noop"
        /\ conns'[c].queue = Tail(conns[c].queue))
         => LET o == conns[c].queue[1].obj
                ob == objs[o]
            IN  \/ objs' = objs /\ timers' = timers
                \/ /\ objs'[o] = ReconnectObj([ob EXCEPT !.isConnected = FALSE])
                   /\ ~objs'[o].isConnected
                   /\ IF ob.reconnectAttempts < MAX_RECONNECT_ATTEMPTS
                        THEN /\ objs'[o].reconnectAttempts = ob.reconnectAttempts + 1
                             /\ ~objs'[o].watchdogTimer
                             /\ timers' = Append(timers,
                                  [obj |-> o, attempt |-> ob.reconnectAttempts + 1,
                                   delay |-> DelayTable[ob.reconnectAttempts + 1]])
                        ELSE /\ objs'[o].reconnectAttempts = ob.reconnectAttempts
                             /\ timers' = timers]_vars

\* a probe has failed on a connection that is still open: the session is
\* marked disconnected, its watchdog is cancelled and its first reconnect
\* attempt is scheduled
C19_Witness ==
  \E o \in Objs :
    /\ ~objs[o].isConnected /\ ~objs[o].watchdogTimer
    /\ objs[o].reconnectAttempts = 1
    /\ timers = <<[obj |-> o, attempt |-> 1, delay |-> INITIAL_RECONNECT_DELAY]>>
    /\ objs[o].connection \in Conns
    /\ conns[objs[o].connection].state = "open"

\* a watchdog interval of session o is running
WatchdogActive(o) == objs[o].watchdogTimer \/ objs[o].leakedWatchdogs > 0

\* C20 (as claimed): a watchdog interval of a session runs only while the
\* session is Listening or Busy, that is connected and not stopped.
C20_WatchdogOnlyWhileListening ==
  \A o \in Objs : WatchdogActive(o) => (objs[o].isConnected /\ ~objs[o].stopped)

\* C25 (as claimed): while a search or a fetch is in flight on a connection
\* of a session that has not been stopped, the connection is not in listen
\* mode.
C25_NoCommandInListenMode ==
  \A c \in Conns :
    (/\ ~objs[conns[c].obj].stopped
     /\ \E i \in 1..Len(conns[c].queue) : conns[c].queue[i].op \in {"search", "fetch"})
      => ~conns[c].idling

\* C26 (as claimed): in a fetch cycle listen mode is re-entered only after
\* every fetched message has been forwarded to the sink or skipped: no
\* connection of a session is in listen mode while a processEmail call of
\* the session is still parsing or still waiting for the sink.
C26_ListenAfterBatchProcessed ==
  \A c \in Conns : \A i \in 1..Len(tasks) :
    (tasks[i].obj = conns[c].obj /\ tasks[i].stage \in {"parse", "index"})
      => ~conns[c].idling

\* connection c has been replaced: its session's connection is another one
Superseded(c) == objs[conns[c].obj].connection # c

\* C27 (as claimed): when a connection that a reconnect has replaced, and
\* that is still connecting or open, emits ready, error or end, the session
\* is as before: its account object, its reconnect timeouts and its current
\* connection do not change.
C27_SupersededEventsIgnored ==
  [][\A c \in Conns :
       (/\ Superseded(c) /\ Live(c)
        /\ conns'[c].state # conns[c].state)
         => LET o == conns[c].obj IN
              /\ objs'[o] = objs[o]
              /\ timers' = timers
              /\ conns'[objs[o].connection] = conns[objs[o].connection]]_vars

\* C28 (as claimed): when the open, current connection of a session that
\* has not been stopped ends, the session recovers: a reconnect is
\* scheduled for it (or a connection of it is already on its way).
C28_EndedConnectionRecovers ==
  [][\A c \in Conns :
       LET o == conns[c].obj IN
       (/\ conns[c].state = "open" /\ conns'[c].state = "closed"
        /\ ~Superseded(c) /\ ~objs[o].stopped /\ objs[o].isConnected)
         => \/ TimersOf(timers', o) > 0
            \/ \E d \in 1..Len(conns') :
                 conns'[d].obj = o /\ conns'[d].state \in {"connecting", "open"}]_vars

\* C29 (as claimed): a session has at most one connection that is
\* connecting or open.
C29_OneLiveConnection ==
  \A o \in Objs : Cardinality({c \in Conns : conns[c].obj = o /\ Live(c)}) <= 1

\* C30 (as claimed): at most one reconnect timeout is pending per session.
C30_OneReconnectTimer ==
  \A o \in Objs : TimersOf(timers, o) <= 1

\* C23: when notifyInterested has returned, every configured channel has
\* been posted to and has settled, whatever the other channel did, and
\* nothing was posted to a channel without URL; success is true exactly
\* when a channel succeeded; errors holds one entry per failed channel; and
\* with no channel configured nothing was posted, success is false and
\* errors holds one entry.
C23_ChannelsIndependent ==
  LET n == notification
      failed == {ch \in Channels : n.chan[ch].state = "failed"}
  IN  n.pc = "returned" =>
        /\ \A ch \in Channels :
             /\ Configured(n.url[ch]) => n.chan[ch].state \in {"ok", "failed"}
             /\ n.chan[ch].posts > 0 <=> Configured(n.url[ch])
        /\ n.result.success <=> \E ch \in Channels : n.chan[ch].state = "ok"
        /\ n.result.slackSuccess <=> n.chan["Slack"].state = "ok"
        /\ n.result.webhookSuccess <=> n.chan["Webhook"].state = "ok"
        /\ IF \E ch \in Channels : Configured(n.url[ch])
           THEN /\ Len(n.result.errors) = Cardinality(failed)
                /\ \A ch \in failed :
                     \E i \in 1..Len(n.result.errors) : n.result.errors[i][1] = ch
           ELSE /\ ~n.result.success
                /\ Len(n.result.errors) = 1

\* a call has returned after Slack failed and the webhook was delivered
C23_Witness ==
  /\ notification.pc = "returned"
  /\ notification.chan["Slack"].state = "failed"
  /\ notification.chan["Webhook"].state = "ok"
  /\ notification.result.success
  /\ Len(notification.result.errors) = 1

\* C24 (as claimed): the category parseClassificationResult returns is one
\* of the eight valid category names, and it is Follow Up when the response
\* is no JSON.
C24_CategoryIsValidName ==
  classification # <<>> =>
    /\ Includes(validCategories, classification[1].result.category)
    /\ ParseThrows(classification[1].response) =>
         classification[1].result.category = FollowUp

\* the session of account id in a state of the manager: its registry
\* entry, its account objects, their connections, reconnect timeouts and
\* processEmail calls, and what the session has handed on or given up on
SessionState(id, reg, os, cs, ts, tk, sk, cl, pe) ==
  LET mine == {o \in 1..Len(os) : os[o].id = id} IN
  [entry |-> reg[id],
   objs |-> [o \in mine |-> os[o]],
   conns |-> [c \in {d \in 1..Len(cs) : cs[d].obj \in mine} |-> cs[c]],
   timers |-> SelectSeq(ts, LAMBDA t : t.obj \in mine),
   tasks |-> SelectSeq(tk, LAMBDA t : t.obj \in mine),
   sink |-> {r \in sk : r.obj \in mine},
   classified |-> {r \in cl : r.obj \in mine},
   errors |-> {k \in pe : k.obj \in mine}]

\* C21: every step other than stopAll changes the session of at most one
\* account: an event of one account's session (ready, error, end, probe
\* failure, new mail, a failed message, an exhausted reconnect, stopImap)
\* leaves the session of every other account as it was.
C21_SessionsIsolated ==
  [][\/ stopAllResolved' /\ ~stopAllResolved
     \/ Cardinality({id \in AccountIds :
          SessionState(id, accounts', objs', conns', timers', tasks',
                       sink', classified', processErrors')
            # SessionState(id, accounts, objs, conns, timers, tasks,
                           sink, classified, processErrors)}) <= 1]_vars

\* one account waits for its reconnect after an error while the other is
\* registered, connected and probed by its watchdog
C21_Witness ==
  \E o1, o2 \in Objs :
    /\ objs[o1].id # objs[o2].id
    /\ accounts[objs[o1].id] = o1 /\ accounts[objs[o2].id] = o2
    /\ ~objs[o1].isConnected /\ objs[o1].reconnectAttempts = 1
    /\ TimersOf(timers, o1) = 1
    /\ \E c \in Conns : conns[c].obj = o1 /\ conns[c].state = "errored"
    /\ objs[o2].isConnected /\ objs[o2].watchdogTimer
    /\ objs[o2].reconnectAttempts = 0

\* C22: a step changes the registry entry of an account only by a start
\* (the entry becomes the account object the step creates) or by a stop
\* (the entry is removed and its account object is marked stopped).
C22_RegistryChangedByStartStop ==
  [][\A id \in AccountIds :
       accounts'[id] # accounts[id] =>
         \/ /\ Len(objs') = Len(objs) + 1
            /\ accounts'[id] = Len(objs')
            /\ objs'[Len(objs')].id = id
         \/ /\ accounts[id] # None /\ accounts'[id] = None
            /\ ~objs[accounts[id]].stopped
            /\ objs'[accounts[id]].stopped]_vars

\* one account has been through an error and a reconnect and is still
\* registered; the other has been removed by a stop
C22_Witness ==
  \E o1, o2 \in Objs :
    /\ objs[o1].id # objs[o2].id
    /\ accounts[objs[o1].id] = o1
    /\ objs[o1].reconnectAttempts >= 1
    /\ \E c \in Conns : conns[c].obj = o1 /\ conns[c].state = "errored"
    /\ objs[o2].stopped /\ accounts[objs[o2].id] = None

\* C31 (as claimed): a session that has not been stopped never has a
\* watchdog interval running besides the one its handle holds: the handle
\* is not overwritten while its interval is active, so that cleanupTimers
\* can cancel every interval that was started.
C31_WatchdogHandleNotOverwritten ==
  \A o \in Objs : ~objs[o].stopped => objs[o].leakedWatchdogs = 0

\* C32 (as claimed): once the openBox that follows ready has been answered
\* on the current, open connection of a connected session that has not been
\* stopped, the session is in listen mode: no answer to openBox leaves it
\* connected and outside listen mode.
C32_ReadyLeadsToListenMode ==
  \A c \in Conns :
    LET o == conns[c].obj IN
    (/\ conns[c].state = "open" /\ objs[o].connection = c
     /\ objs[o].isConnected /\ ~objs[o].stopped
     /\ \A i \in 1..Len(conns[c].queue) : conns[c].queue[i].op # "openBox")
      => conns[c].idling

\* the number of hits with this id that a search for the document returns
HitsFor(d) ==
  LET hits == searchEmails(d.accountId, d.subject, 0, 10)
  IN  Cardinality({i \in 1..Len(hits) : hits[i].id = d.id})

\* the number of documents with this id that the sink of the process stores
StoredFor(d) ==
  IF documents.mode = "mock"
    THEN Cardinality({i \in 1..Len(documents.mockEmails) :
                        documents.mockEmails[i].id = d.id})
    ELSE Cardinality({s \in documents.stored : s.id = d.id})

\* C33 (as claimed): whatever the sink mode and however often a document with
\* the same compositeId was submitted, the sink stores exactly one document
\* with that id and a search that matches it returns it exactly once.
C33_OneDocumentPerId ==
  \A i \in 1..Len(documents.submitted) :
    LET d == documents.submitted[i]
    IN  StoredFor(d) = 1 /\ HitsFor(d) = 1

\* C36: classifyAndUpdateEmail calls notifyInterested only for a classification
\* whose category is 'Interested'; and once classifyEmail and the update have
\* succeeded the call does not throw, whatever getEmailDocument and
\* notifyInterested do: when it has returned, it has returned the classification.
C36_NotifyOnlyInterestedNeverFails ==
  \A i \in 1..Len(classifyCall) :
    LET call == classifyCall[i]
    IN  /\ call.notify # "none" =>
             call.classification[1].category =
               <<"I", "n", "t", "e", "r", "e", "s", "t", "e", "d">>
        /\ (call.loaded # "none" \/ call.notify # "none") =>
             call.stage \in {"notifying", "returned"}
        /\ call.stage = "returned" => call.returned = call.classification

\* the notification threw and the call returned the classification
C36_Witness ==
  /\ classifyCall # <<>>
  /\ classifyCall[1].stage = "returned"
  /\ classifyCall[1].notify = "threw"
  /\ classifyCall[1].returned = classifyCall[1].classification

\* what C38 says of a channel at every moment of its sendWithRetry call
SendWithRetryBounded(chan) ==
  /\ chan.posts = chan.attempt
  /\ chan.attempt <= 3
  /\ (chan.state = "sleeping" \/ (chan.attempt > 1 /\ chan.state # "failed")) =>
       chan.error # <<>> /\ isRetryableError(chan.error[1])
  /\ chan.state = "sleeping" =>
       /\ chan.attempt < 3
       /\ chan.delay =
            (IF 1000 * 2^(chan.attempt - 1) < 10000
               THEN 1000 * 2^(chan.attempt - 1) ELSE 10000)
  /\ chan.state = "failed" =>
       /\ chan.error # <<>>
       /\ chan.attempt = 3 \/ ~isRetryableError(chan.error[1])

\* C38: sendWithRetry posts at most 3 times, retries only after a retryable
\* error, sleeps min(1000 * 2^(attempt-1), 10000) ms after attempt number
\* attempt before it retries (the delay function is that for every attempt
\* number, also beyond the third), and every call ends: with the first
\* success, or with a failure whose reported error is the last one caught.
C38_SendWithRetryBoundedBackoff ==
  /\ [](\A ch \in Channels :
          /\ SendWithRetryBounded(notification.chan[ch])
          /\ notification.chan[ch].state = "failed" =>
               \E k \in 1..Len(notification.result.errors) :
                 notification.result.errors[k] =
                   <<ch, notification.chan[ch].error[1].message>>)
  /\ [](\A a \in 1..(2 * MAX_RETRIES) :
          calculateBackoffDelay(a) =
            (IF 1000 * 2^(a - 1) < 10000 THEN 1000 * 2^(a - 1) ELSE 10000))
  /\ \A ch \in Channels :
       (notification.chan[ch].state \in {"pending", "sleeping"})
         ~> (notification.chan[ch].state \in {"ok", "failed"})

\* a call that gave up after its third post, each answered with a retryable
\* error
C38_Witness ==
  \E ch \in Channels :
    /\ notification.chan[ch].state = "failed"
    /\ notification.chan[ch].posts = 3
    /\ isRetryableError(notification.chan[ch].error[1])

\* C37: the reconnectAttempts of every account object stays within 0..5, and a
\* step changes it only by adding one, in handleReconnect (which then has
\* scheduled the timeout of that attempt), or by setting it to 0, in the
\* 'ready' handler (which then has set isConnected and the initial delay).
C37_AttemptsBoundedAndStepwise ==
  /\ [](\A o \in 1..Len(objs) :
          0 <= objs[o].reconnectAttempts /\ objs[o].reconnectAttempts <= 5)
  /\ [][\A o \in 1..Len(objs) :
          objs'[o].reconnectAttempts # objs[o].reconnectAttempts =>
            \/ /\ objs'[o].reconnectAttempts = objs[o].reconnectAttempts + 1
               /\ \E i \in 1..Len(timers') :
                    /\ timers'[i].obj = o
                    /\ timers'[i].attempt = objs'[o].reconnectAttempts
            \/ /\ objs'[o].reconnectAttempts = 0
               /\ objs'[o].isConnected
               /\ objs'[o].reconnectDelay = INITIAL_RECONNECT_DELAY]_vars

\* the fifth attempt has been made and its timeout is pending
C37_Witness ==
  \E o \in 1..Len(objs) :
    /\ objs[o].reconnectAttempts = 5
    /\ \E i \in 1..Len(timers) : timers[i].obj = o /\ timers[i].attempt = 5

\* C34: the fetch that follows a search answer of n identifiers asks for its
\* last min(10, n) identifiers in the order of the answer, and an empty answer
\* issues no fetch.
C34_FetchesLastTen ==
  \A j \in 1..Len(fetchRequest) :
    LET results == fetchRequest[j].results
        n == Len(results)
        k == IF n < 10 THEN n ELSE 10
    IN  IF n = 0
          THEN fetchRequest[j].fetched = <<>>
          ELSE fetchRequest[j].fetched = <<[i \in 1..k |-> results[n - k + i]]>>

\* an answer of more than ten identifiers has been fetched
C34_Witness ==
  /\ fetchRequest # <<>>
  /\ Len(fetchRequest[1].results) > 10
  /\ fetchRequest[1].fetched # <<>>
  /\ Len(fetchRequest[1].fetched[1]) = 10

\* the number of search commands a connection has been sent and not answered
SearchesOf(cs, c) ==
  IF c \in 1..Len(cs)
    THEN Cardinality({i \in 1..Len(cs[c].queue) : cs[c].queue[i].op = "search"})
    ELSE 0

\* C35: a search is sent only by a step that finds the account connected, and
\* the step that takes a new-mail signal for an account that is not connected
\* sends no command, schedules no timeout and changes nothing of the session,
\* so that nothing of the signal is left for the time after a reconnect.
C35_SignalDroppedWhenNotConnected ==
  [][/\ \A c \in 1..Len(conns') :
          SearchesOf(conns', c) > SearchesOf(conns, c) =>
            /\ objs[conns'[c].obj].isConnected
            /\ objs[conns'[c].obj].connection = c
            /\ droppedSignals' = droppedSignals
     /\ droppedSignals' # droppedSignals =>
          /\ conns' = conns /\ objs' = objs /\ timers' = timers
          /\ tasks' = tasks /\ cyclesStarted' = cyclesStarted]_vars

\* a signal was dropped, the session has reconnected and listens again, and no
\* fetch cycle was ever started
C35_Witness ==
  /\ droppedSignals > 0
  /\ cyclesStarted = 0
  /\ \E c \in Conns :
       /\ c > 1
       /\ conns[c].state = "open" /\ conns[c].idling /\ conns[c].queue = <<>>
       /\ objs[conns[c].obj].connection = c
       /\ objs[conns[c].obj].isConnected

====
